---- MODULE Spec2Model ----
(***************************************************************************)
(* Model of the conversational pipeline of my_flow_api: title              *)
(* normalisation, defensive parsing of extracted tasks, the AI tools over  *)
(* the flow store, the TTL cache and the extraction pass of stream_chat.   *)
(* Strings whose characters matter (titles) are sequences of one-character *)
(* strings; all other strings are opaque values.                           *)
(***************************************************************************)
EXTENDS Integers, Sequences, FiniteSets, TLC

VARIABLES
    norm_in,        \* title handed to _normalize_title
    norm_out,       \* its result (NoKey before the call)
    norm_pc,        \* "input" | "done"
    ex_call,        \* one call of extract_flows_from_text: its arguments and
                    \* what the provider does (answer or failure)
    ex_result,      \* what the call returned or raised
    ex_pc,          \* "input" | "done"
    flows,          \* the flows collection: flow id -> document
    summary_cache,  \* CacheService._cache of summary_cache: key -> entry
    dismissed_flow_cache,   \* the same of dismissed_flow_cache
    now,            \* the clock read by datetime.now(UTC), in seconds
    created_count,  \* number of flows inserted so far (allocates ids)
    tool,           \* the tool call in progress (AITools.execute_tool)
    tool_calls,     \* number of tool calls started
    turn,           \* one request to POST /conversations/stream (stream_chat)
    others,         \* requests of other clients made so far, by kind
    request,        \* the ChatRequest of the turn and who sent it
    conversations,  \* the conversations collection: id -> document
    stream,         \* the provider stream of the turn as consumed so far
    frames,         \* the SSE frames the turn has sent, in order
    probe,          \* the last CacheService operation of a client, its result,
                    \* and what the client may expect of each key
    summary,        \* one call of generate_context_summary in progress
    appends,        \* the calls of ConversationRepository.append_message
    adapter,        \* one provider call of AIService and the events it yields
    starts,         \* concurrent requests to stream_chat up to the append of
                    \* the user message, each with its position and locals
    recent          \* one call of get_recent_messages: arguments and result

normVars == <<norm_in, norm_out, norm_pc>>
exVars == <<ex_call, ex_result, ex_pc>>
storeVars == <<flows, summary_cache, dismissed_flow_cache, now, created_count>>
toolVars == <<tool, tool_calls>>
turnVars == <<turn, others>>
streamVars == <<request, conversations, stream, frames>>
readVars == <<probe, summary, appends, adapter, starts, recent>>
vars == <<norm_in, norm_out, norm_pc, ex_call, ex_result, ex_pc,
          flows, summary_cache, dismissed_flow_cache, now, created_count,
          tool, tool_calls, turn, others, request, conversations, stream, frames,
          probe, summary, appends, adapter, starts, recent>>

----------------------------------------------------------------------------
(* Bounds                                                                  *)

MaxTitleLen == 4
MaxItems == 2
MaxToolCalls == 2
MaxCandidates == 2
MaxOtherRequests == 1
MaxTime == 1
MaxChunks == 2
MaxSummaryReads == 2
MaxAppends == 2
MaxRecentMessages == 3

----------------------------------------------------------------------------
(* Characters                                                              *)

LowerLetters ==
    {"a","b","c","d","e","f","g","h","i","j","k","l","m",
     "n","o","p","q","r","s","t","u","v","w","x","y","z"}

Digits == {"0","1","2","3","4","5","6","7","8","9"}

\* \s of the regular expression; only the blank occurs in the model.
Whitespace == {" "}

\* The characters titles are drawn from: letters of the stopwords, an
\* upper-case letter, a digit, the blank and a punctuation mark.
TitleAlphabet == {"t", "h", "e", "a", "n", "o", "b", "T", "1", " ", "-"}

NoKey == <<"?none?">>

\* str.lower() on the characters of the alphabet
Lower(c) == IF c = "T" THEN "t" ELSE c

LowerTitle(s) == [i \in 1..Len(s) |-> Lower(s[i])]

\* the class [a-z0-9\s] of the regular expression in _normalize_title
IsKept(c) == c \in LowerLetters \cup Digits \cup Whitespace

\* re.sub(r"[^a-z0-9\s]+", " ", s): every maximal run of characters outside
\* the class becomes one blank.
RECURSIVE ReSub(_)
ReSub(s) ==
    IF s = <<>> THEN <<>>
    ELSE IF IsKept(Head(s)) THEN <<Head(s)>> \o ReSub(Tail(s))
    ELSE IF Len(s) > 1 /\ ~IsKept(s[2]) THEN ReSub(Tail(s))
    ELSE <<" ">> \o ReSub(Tail(s))

\* str.split(): the maximal runs of non-whitespace characters, in order.
RECURSIVE SplitFrom(_, _)
SplitFrom(s, cur) ==
    IF s = <<>> THEN (IF cur = <<>> THEN <<>> ELSE <<cur>>)
    ELSE IF Head(s) \in Whitespace
         THEN (IF cur = <<>> THEN <<>> ELSE <<cur>>) \o SplitFrom(Tail(s), <<>>)
         ELSE SplitFrom(Tail(s), Append(cur, Head(s)))

Split(s) == SplitFrom(s, <<>>)

STOPWORDS ==
    { <<"t","h","e">>, <<"a">>, <<"a","n">>, <<"t","o">>, <<"m","y">>,
      <<"y","o","u","r">>, <<"p","l","e","a","s","e">> }

\* [token for token in tokens if token and token not in STOPWORDS]
RECURSIVE DropStopwords(_)
DropStopwords(tokens) ==
    IF tokens = <<>> THEN <<>>
    ELSE IF Head(tokens) # <<>> /\ Head(tokens) \notin STOPWORDS
         THEN <<Head(tokens)>> \o DropStopwords(Tail(tokens))
         ELSE DropStopwords(Tail(tokens))

\* "".join(tokens)
RECURSIVE JoinTokens(_)
JoinTokens(tokens) ==
    IF tokens = <<>> THEN <<>>
    ELSE Head(tokens) \o JoinTokens(Tail(tokens))

normalize_title(title) ==
    JoinTokens(DropStopwords(Split(ReSub(LowerTitle(title)))))

----------------------------------------------------------------------------
(* Titles of bounded length over the alphabet                              *)

SeqsUpTo(S, n) == UNION { [1..k -> S] : k \in 0..n }

BoundedTitles == SeqsUpTo(TitleAlphabet, MaxTitleLen)

----------------------------------------------------------------------------
(* JSON documents returned by the extraction model.                        *)
(* A value is [k, v]: k is its JSON kind ("absent" for a missing key), v   *)
(* its content when it is a string. Titles are character sequences (T...), *)
(* every other string is opaque (S...).                                    *)

MaxTitleChars == 200

TAbsent == [k |-> "absent", v |-> <<>>]
TStr(s) == [k |-> "str", v |-> s]
SAbsent == [k |-> "absent", v |-> ""]
SNull == [k |-> "null", v |-> ""]
SStr(s) == [k |-> "str", v |-> s]

Title_bk == <<"b", "k">>
Title_fl == <<"f", "l">>
LongTitle == [i \in 1..(MaxTitleChars + 1) |-> "x"]

TitleVals == {TAbsent, TStr(<<>>), TStr(LongTitle), TStr(Title_bk), TStr(Title_fl)}
PriorityVals == {SAbsent, SNull, SStr("low"), SStr("HIGH"), SStr("urgent")}
DescriptionVals == {SAbsent, SStr("d")}

ObjectItems ==
    [kind : {"object"}, title : TitleVals, priority : PriorityVals,
     description : DescriptionVals]

NonObjectItem(kind) ==
    [kind |-> kind, title |-> TAbsent, priority |-> SAbsent, description |-> SAbsent]

Items == ObjectItems \cup {NonObjectItem("str"), NonObjectItem("null")}

\* top: "invalid" (not JSON), "object", or the kind of a non-object document;
\* tasks: "absent", "list", or the kind of a non-list value.
Payload(top, tasks, items) == [top |-> top, tasks |-> tasks, items |-> items]

Payloads ==
    { Payload(top, "absent", <<>>) : top \in {"invalid", "str", "list", "null"} }
    \cup { Payload("object", tasks, <<>>) : tasks \in {"absent", "str", "object", "null"} }
    \cup { Payload("object", "list", items) : items \in SeqsUpTo(Items, MaxItems) }

\* str.lower() and str.upper() on the priority strings of the model
LowerWord(s) == IF s = "HIGH" THEN "high" ELSE s

UpperWord(s) ==
    CASE s = "low" -> "LOW"
      [] s = "medium" -> "MEDIUM"
      [] s = "high" -> "HIGH"
      [] s = "urgent" -> "URGENT"
      [] OTHER -> s

\* FlowPriority: member name -> value
FlowPriorityNames == {"LOW", "MEDIUM", "HIGH"}
FlowPriorityByName(name) ==
    CASE name = "LOW" -> "low"
      [] name = "MEDIUM" -> "medium"
      [] name = "HIGH" -> "high"

\* Mutant: the KeyError fallback is missing and the unknown string is kept.
PriorityOrMedium_passthrough(priority_str) ==
    IF UpperWord(priority_str) \in FlowPriorityNames
    THEN FlowPriorityByName(UpperWord(priority_str))
    ELSE priority_str

\* FlowPriority[priority_str.upper()], KeyError -> FlowPriority.MEDIUM
PriorityOrMedium(priority_str) ==
    IF UpperWord(priority_str) \in FlowPriorityNames
    THEN FlowPriorityByName(UpperWord(priority_str))
    ELSE "medium"

\* FlowBase.title: str, min_length 1, max_length 200
TitleValid(t) == t.k = "str" /\ Len(t.v) >= 1 /\ Len(t.v) <= MaxTitleChars

\* FlowBase.description: str | None
DescriptionValid(d) == d.k \in {"absent", "null", "str"}

FlowCreate(context_id, title, description, priority) ==
    [context_id |-> context_id, title |-> title, description |-> description,
     priority |-> priority, due_date |-> "None", reminder_enabled |-> FALSE]

NoFlow == FlowCreate("", <<>>, "None", "medium")

\* The body of the loop of _parse_flow_json for one item: "ok" with the
\* flow, "skip" (KeyError, ValueError or ValidationError, caught), or
\* "raise" (AttributeError on .get or .lower, which is not caught).
ParseItem(item, context_id) ==
    IF item.kind # "object" THEN [status |-> "raise", flow |-> NoFlow]
    ELSE IF item.priority.k \notin {"absent", "str"}
         THEN [status |-> "raise", flow |-> NoFlow]
    ELSE LET priority_str == LowerWord(IF item.priority.k = "absent"
                                       THEN "medium" ELSE item.priority.v)
             priority == PriorityOrMedium(priority_str)
         IN  IF item.title.k = "absent" THEN [status |-> "skip", flow |-> NoFlow]
             ELSE IF ~TitleValid(item.title) \/ ~DescriptionValid(item.description)
                  THEN [status |-> "skip", flow |-> NoFlow]
             ELSE [status |-> "ok",
                   flow |-> FlowCreate(context_id, item.title.v,
                                IF item.description.k = "str"
                                THEN item.description.v ELSE "None",
                                priority)]

RECURSIVE ParseItems(_, _)
ParseItems(items, context_id) ==
    IF items = <<>> THEN [exc |-> "none", flows |-> <<>>]
    ELSE LET first == ParseItem(Head(items), context_id)
             rest == ParseItems(Tail(items), context_id)
         IN  IF first.status = "raise" THEN [exc |-> "AttributeError", flows |-> <<>>]
             ELSE IF rest.exc # "none" THEN rest
             ELSE IF first.status = "ok"
                  THEN [exc |-> "none", flows |-> <<first.flow>> \o rest.flows]
             ELSE rest

parse_flow_json(payload, context_id) ==
    IF payload.top = "invalid" THEN [exc |-> "none", flows |-> <<>>]
    ELSE IF payload.top # "object" THEN [exc |-> "none", flows |-> <<>>]
    ELSE IF payload.tasks = "absent" THEN [exc |-> "none", flows |-> <<>>]
    ELSE IF payload.tasks # "list" THEN [exc |-> "none", flows |-> <<>>]
    ELSE ParseItems(payload.items, context_id)

\* _extract_flows_openai / _extract_flows_anthropic: the provider call and
\* its error mapping, then _parse_flow_json on the answer.
extract_flows_provider(call) ==
    CASE call.outcome = "rate_limit" -> [exc |-> "AIRateLimitError", flows |-> <<>>]
      [] call.outcome = "timeout" -> [exc |-> "AIServiceError", flows |-> <<>>]
      [] call.outcome = "api_error" -> [exc |-> "AIServiceError", flows |-> <<>>]
      [] OTHER -> parse_flow_json(call.payload, call.context_id)

\* extract_flows_from_text: input checks, dispatch, and the handlers that
\* re-raise AIRateLimitError and wrap every other exception in AIServiceError.
extract_flows_from_text(call) ==
    IF call.text = "" THEN [exc |-> "none", flows |-> <<>>]
    ELSE IF call.context_id = "" THEN [exc |-> "ValueError", flows |-> <<>>]
    ELSE LET r == extract_flows_provider(call)
         IN  IF r.exc \in {"none", "AIRateLimitError"} THEN r
             ELSE [exc |-> "AIServiceError", flows |-> <<>>]

ExtractCall(text, context_id, provider, outcome, payload) ==
    [text |-> text, context_id |-> context_id, provider |-> provider,
     outcome |-> outcome, payload |-> payload]

EmptyPayload == Payload("object", "list", <<>>)

\* The provider answers with a payload only when the call is made and
\* succeeds; otherwise the payload plays no part.
ExtractCalls ==
    { ExtractCall("user: x", "c1", "openai", "ok", payload) : payload \in Payloads }
    \cup { ExtractCall(text, context_id, provider, outcome, EmptyPayload) :
             text \in {"", "user: x"}, context_id \in {"", "c1"},
             provider \in {"openai", "anthropic"},
             outcome \in {"ok", "rate_limit", "timeout", "api_error"} }

IdleCall == ExtractCall("", "", "openai", "ok", EmptyPayload)
NoResult == [exc |-> "pending", flows |-> <<>>]

----------------------------------------------------------------------------
(* The flows collection (FlowRepository over MongoDB)                      *)

Users == {"u1", "u2"}
Contexts == {"c1", "c2"}

FlowDoc(id, user_id, context_id, title, priority, is_completed, created_at) ==
    [id |-> id, user_id |-> user_id, context_id |-> context_id, title |-> title,
     priority |-> priority, is_completed |-> is_completed, created_at |-> created_at]

\* None, as returned by the repository
NoDoc == FlowDoc("", "", "", <<>>, "medium", FALSE, 0)

\* the ids created flows receive, in order
NewFlowIds == <<"n1", "n2", "n3", "n4", "n5", "n6">>

\* strings that ObjectId() accepts; every other string is an InvalidId
ValidObjectIds == {"f1", "f2", "f3", "f9"} \cup {NewFlowIds[i] : i \in DOMAIN NewFlowIds}

\* BaseRepository._to_object_id: "" stands for None
to_object_id(doc_id) == IF doc_id \in ValidObjectIds THEN doc_id ELSE ""

\* Mutant: the query of get_by_id has no user_id filter.
get_by_id_any_user(docs, flow_id, user_id) ==
    IF to_object_id(flow_id) = "" THEN NoDoc
    ELSE IF flow_id \in DOMAIN docs THEN docs[flow_id]
    ELSE NoDoc

\* FlowRepository.get_by_id
get_by_id(docs, flow_id, user_id) ==
    IF to_object_id(flow_id) = "" THEN NoDoc
    ELSE IF flow_id \in DOMAIN docs /\ docs[flow_id].user_id = user_id THEN docs[flow_id]
    ELSE NoDoc

\* the documents matched by {"_id": obj_id, "user_id": user_id}
Matches(docs, flow_id, user_id) ==
    /\ to_object_id(flow_id) # ""
    /\ flow_id \in DOMAIN docs
    /\ docs[flow_id].user_id = user_id

RemoveDoc(docs, flow_id) == [f \in DOMAIN docs \ {flow_id} |-> docs[f]]

----------------------------------------------------------------------------
(* CacheService: key -> [value, expires_at]                                *)

SummaryKey(context_id) == <<"summary", context_id>>
DismissedKey(context_id, normalized_title) == <<"dismissed", context_id, normalized_title>>

SummaryTTL == 300

\* Mutant: an entry is still readable at the instant it expires.
cache_get_inclusive(cache, key, t) ==
    IF key \in DOMAIN cache /\ t <= cache[key].expires_at THEN cache[key].value
    ELSE "None"

\* CacheService.get: the value returned ("None" on a miss or an expired entry)
cache_get(cache, key, t) ==
    IF key \in DOMAIN cache /\ t < cache[key].expires_at THEN cache[key].value
    ELSE "None"

\* a live entry under the key (ghost fields only)
LiveEntry(cache, key, t) == key \in DOMAIN cache /\ t < cache[key].expires_at

\* CacheService.get: the cache afterwards (an expired entry is removed)
cache_after_get(cache, key, t) ==
    IF key \in DOMAIN cache /\ ~(t < cache[key].expires_at)
    THEN [k \in DOMAIN cache \ {key} |-> cache[k]]
    ELSE cache

\* CacheService.set
cache_set(cache, key, value, ttl_seconds, t) ==
    [k \in DOMAIN cache \cup {key} |->
        IF k = key THEN [value |-> value, expires_at |-> t + ttl_seconds] ELSE cache[k]]

\* Mutant: a delete that leaves the entry in place.
cache_delete_kept(cache, key) == cache

\* CacheService.delete
cache_delete(cache, key) == [k \in DOMAIN cache \ {key} |-> cache[k]]

EmptyCache == [k \in {} |-> [value |-> "None", expires_at |-> 0]]

\* CacheService.clear
cache_clear(cache) == EmptyCache

CacheKeys == {"k1", "k2"}
CacheValues == {"v1", "v2"}
CacheTTLs == {0, 1, 2}

\* what a client that remembers its own calls expects of a key: nothing, or
\* the value of the last set and the instant it expires
Unset == [set |-> FALSE, value |-> "None", expires_at |-> 0]
Expect(value, expires_at) == [set |-> TRUE, value |-> value, expires_at |-> expires_at]

Expected(expect, key, t) ==
    IF expect[key].set /\ t < expect[key].expires_at THEN expect[key].value ELSE "None"

NoProbe == [op |-> "none", key |-> "", result |-> "None", time |-> 0,
            expect |-> [k \in CacheKeys |-> Unset]]

\* await cache.get(key)
CacheGet ==
    /\ \E key \in CacheKeys :
         /\ probe' = [probe EXCEPT !.op = "get", !.key = key, !.time = now,
                                   !.result = cache_get(summary_cache, key, now)]
         /\ summary_cache' = cache_after_get(summary_cache, key, now)
    /\ UNCHANGED <<summary, appends, adapter, starts, recent, streamVars, flows, dismissed_flow_cache, now, created_count,
                   toolVars, turnVars, normVars, exVars>>

\* await cache.set(key, value, ttl_seconds)
CacheSet ==
    /\ \E key \in CacheKeys : \E value \in CacheValues : \E ttl \in CacheTTLs :
         /\ summary_cache' = cache_set(summary_cache, key, value, ttl, now)
         /\ probe' = [probe EXCEPT !.op = "set", !.key = key, !.time = now,
                                   !.expect[key] = Expect(value, now + ttl)]
    /\ UNCHANGED <<summary, appends, adapter, starts, recent, streamVars, flows, dismissed_flow_cache, now, created_count,
                   toolVars, turnVars, normVars, exVars>>

\* await cache.delete(key)
CacheDelete ==
    /\ \E key \in CacheKeys :
         /\ summary_cache' = cache_delete(summary_cache, key)
         /\ probe' = [probe EXCEPT !.op = "delete", !.key = key, !.time = now,
                                   !.expect[key] = Unset]
    /\ UNCHANGED <<summary, appends, adapter, starts, recent, streamVars, flows, dismissed_flow_cache, now, created_count,
                   toolVars, turnVars, normVars, exVars>>

\* await cache.clear()
CacheClear ==
    /\ summary_cache' = cache_clear(summary_cache)
    /\ probe' = [probe EXCEPT !.op = "clear", !.key = "", !.time = now,
                              !.expect = [k \in CacheKeys |-> Unset]]
    /\ UNCHANGED <<summary, appends, adapter, starts, recent, streamVars, flows, dismissed_flow_cache, now, created_count,
                   toolVars, turnVars, normVars, exVars>>

----------------------------------------------------------------------------
(* AITools: the four tools and their dispatch                              *)

Executors ==
    {"mark_flow_complete", "delete_flow", "update_flow_priority", "update_flow_title"}

ToolNames == Executors \cup {"create_flow"}

FlowPriorityValues == {"low", "medium", "high"}

FlowIdArgs ==
    {SAbsent, SStr(""), SStr("bad"), SStr("f1"), SStr("f2"), SStr("f3"), SStr("f9")}

\* the arguments object of a tool call, as parsed from the model's JSON
ToolArgs(name) ==
    [flow_id : FlowIdArgs,
     priority : IF name = "update_flow_priority"
                THEN {SAbsent, SStr("high"), SStr("urgent")} ELSE {SAbsent},
     new_title : IF name = "update_flow_title"
                 THEN {TAbsent, TStr(Title_fl), TStr(<<>>)} ELSE {TAbsent}]

Ok(text) == [success |-> TRUE, text |-> text]
Fail(text) == [success |-> FALSE, text |-> text]
Pending == [success |-> FALSE, text |-> "?pending?"]

\* an exception leaving execute_tool (never a returned value)
Raised == [success |-> FALSE, text |-> "?raised?"]

\* Mutant: execute_tool without its exception handler.
execute_tool_reraise(raised) == raised

\* execute_tool, except Exception: the exception of an executor becomes a
\* failure result
execute_tool_except(raised) == Fail("Tool execution failed")

\* What execute_tool returns before the executor's first await, if it
\* returns there: an unknown tool, a missing flow_id in mark_flow_complete,
\* or a KeyError on arguments[...] caught by execute_tool.
ToolEarlyResult(name, args) ==
    IF name \notin Executors THEN Fail("Unknown tool")
    ELSE IF name = "mark_flow_complete"
         THEN (IF args.flow_id.k = "absent" \/ args.flow_id.v = ""
               THEN Fail("Missing flow_id parameter") ELSE Pending)
    ELSE IF args.flow_id.k = "absent" THEN execute_tool_except(Raised)
    ELSE IF name = "update_flow_priority" /\ args.priority.k = "absent"
         THEN execute_tool_except(Raised)
    ELSE IF name = "update_flow_title" /\ args.new_title.k = "absent"
         THEN execute_tool_except(Raised)
    ELSE Pending

\* the neutral message of each tool for a flow that get_by_id does not find
NeutralMessage(name) ==
    CASE name = "mark_flow_complete" -> "That task is already cleared"
      [] name = "delete_flow" -> "That task was already removed"
      [] OTHER -> "That task is already gone"

SuccessMessage(name) ==
    CASE name = "mark_flow_complete" -> "Marked as complete"
      [] name = "delete_flow" -> "Deleted"
      [] name = "update_flow_priority" -> "Updated priority"
      [] OTHER -> "Renamed"

MutationFailure(name) ==
    CASE name = "mark_flow_complete" -> "Failed to mark flow as complete"
      [] name = "delete_flow" -> "Failed to delete flow"
      [] name = "update_flow_priority" -> "Failed to update flow priority"
      [] OTHER -> "Failed to update flow title"

\* The executor from the return of get_by_id to its next await: the neutral
\* result for a missing flow, the ValueError handlers of FlowPriority(...)
\* and FlowUpdate(title=...), or the next step.
AfterLookup(name, args, flow) ==
    IF flow = NoDoc THEN [pc |-> "done", result |-> Ok(NeutralMessage(name))]
    ELSE IF name = "mark_flow_complete" THEN [pc |-> "mc_check", result |-> Pending]
    ELSE IF name = "update_flow_priority" /\ args.priority.v \notin FlowPriorityValues
         THEN [pc |-> "done", result |-> Fail("Invalid priority")]
    ELSE IF name = "update_flow_title" /\ ~TitleValid(args.new_title)
         THEN [pc |-> "done", result |-> Fail("Invalid title")]
    ELSE [pc |-> "mutate", result |-> Pending]

\* the owned flow the flow_id argument names, if any (used by the ghost fields)
Resolves(docs, args, user_id) ==
    /\ args.flow_id.k = "str"
    /\ args.flow_id.v \in DOMAIN docs
    /\ docs[args.flow_id.v].user_id = user_id

IdleTool ==
    [pc |-> "idle", name |-> "", args |-> [flow_id |-> SAbsent, priority |-> SAbsent,
                                           new_title |-> TAbsent],
     user_id |-> "", flow |-> NoDoc, result |-> Pending,
     g_unresolved |-> FALSE, g_completed_at_start |-> FALSE, g_raced |-> FALSE,
     g_mutated |-> FALSE, g_invalidated |-> FALSE]

\* the call of execute_tool(name, args, user_id, flow_repo) once it reached
\* the first await of the executor, or returned before it
ToolStarted(name, args, user_id, early) ==
    [pc |-> IF early = Pending THEN "lookup" ELSE "done",
     name |-> name, args |-> args, user_id |-> user_id,
     flow |-> NoDoc, result |-> early,
     g_unresolved |-> ~Resolves(flows, args, user_id),
     g_completed_at_start |->
         /\ Resolves(flows, args, user_id)
         /\ flows[args.flow_id.v].is_completed,
     g_raced |-> FALSE, g_mutated |-> FALSE, g_invalidated |-> FALSE]

\* every tool call of the model: a name and an arguments object
ToolCalls ==
    UNION { {[name |-> name, args |-> args] : args \in ToolArgs(name)} : name \in ToolNames }

\* execute_tool up to the first await of the executor, for a call among calls
StartToolAmong(calls) ==
    /\ tool.pc \in {"idle", "done"}
    /\ tool_calls < MaxToolCalls
    /\ \E call \in calls :
         tool' = ToolStarted(call.name, call.args, "u1",
                             ToolEarlyResult(call.name, call.args))
    /\ tool_calls' = tool_calls + 1
    /\ UNCHANGED <<readVars, streamVars, storeVars, normVars, exVars, turnVars>>

StartTool == StartToolAmong(ToolCalls)

\* flow = await flow_repo.get_by_id(flow_id, user_id) and what follows it
ToolLookup ==
    /\ tool.pc = "lookup"
    /\ LET flow == get_by_id(flows, tool.args.flow_id.v, tool.user_id)
           next == AfterLookup(tool.name, tool.args, flow)
       IN  tool' = [tool EXCEPT !.flow = flow, !.pc = next.pc, !.result = next.result,
                                !.g_unresolved = ~Resolves(flows, tool.args, tool.user_id)]
    /\ UNCHANGED <<readVars, streamVars, tool_calls, storeVars, normVars, exVars, turnVars>>

\* FlowRepository.mark_complete, first await: the status check
ToolMarkCompleteCheck ==
    /\ tool.pc = "mc_check"
    /\ LET flow == get_by_id(flows, tool.args.flow_id.v, tool.user_id)
       IN  IF flow = NoDoc \/ flow.is_completed
           THEN tool' = [tool EXCEPT !.pc = "done",
                                     !.result = Fail(MutationFailure(tool.name))]
           ELSE tool' = [tool EXCEPT !.pc = "mc_update"]
    /\ UNCHANGED <<readVars, streamVars, tool_calls, storeVars, normVars, exVars, turnVars>>

\* FlowRepository.mark_complete, second await: find_one_and_update
ToolMarkCompleteUpdate ==
    /\ tool.pc = "mc_update"
    /\ LET id == tool.args.flow_id.v
       IN  IF Matches(flows, id, tool.user_id)
           THEN /\ flows' = [flows EXCEPT ![id].is_completed = TRUE]
                /\ tool' = [tool EXCEPT !.pc = "invalidate", !.g_mutated = TRUE]
           ELSE /\ flows' = flows
                /\ tool' = [tool EXCEPT !.pc = "done",
                                        !.result = Fail(MutationFailure(tool.name))]
    /\ UNCHANGED <<readVars, streamVars, tool_calls, summary_cache, dismissed_flow_cache, now, created_count,
                   normVars, exVars, turnVars>>

\* the document after flow_repo.update with the tool's FlowUpdate
UpdatedDoc(doc, name, args) ==
    IF name = "update_flow_priority" THEN [doc EXCEPT !.priority = args.priority.v]
    ELSE [doc EXCEPT !.title = args.new_title.v]

\* flow_repo.delete / flow_repo.update of the delete, priority and title tools
ToolMutate ==
    /\ tool.pc = "mutate"
    /\ LET id == tool.args.flow_id.v
       IN  IF Matches(flows, id, tool.user_id)
           THEN /\ flows' = IF tool.name = "delete_flow" THEN RemoveDoc(flows, id)
                            ELSE [flows EXCEPT ![id] = UpdatedDoc(@, tool.name, tool.args)]
                /\ tool' = [tool EXCEPT !.pc = "invalidate", !.g_mutated = TRUE]
           ELSE /\ flows' = flows
                /\ tool' = [tool EXCEPT !.pc = "done",
                                        !.result = Fail(MutationFailure(tool.name))]
    /\ UNCHANGED <<readVars, streamVars, tool_calls, summary_cache, dismissed_flow_cache, now, created_count,
                   normVars, exVars, turnVars>>

\* await summary_cache.delete(f"summary:{flow.context_id}") and the return
ToolInvalidate ==
    /\ tool.pc = "invalidate"
    /\ summary_cache' = cache_delete(summary_cache, SummaryKey(tool.flow.context_id))
    /\ tool' = [tool EXCEPT !.pc = "done", !.result = Ok(SuccessMessage(tool.name)),
                            !.g_invalidated = TRUE]
    /\ UNCHANGED <<readVars, streamVars, tool_calls, flows, dismissed_flow_cache, now, created_count,
                   normVars, exVars, turnVars>>

\* the ghost field g_raced: a user action on the flow of the running tool call
Raced(flow_id) ==
    IF tool.pc \notin {"idle", "done"} /\ tool.args.flow_id.v = flow_id
    THEN [tool EXCEPT !.g_raced = TRUE]
    ELSE tool

\* DELETE /api/v1/flows/{flow_id} by the owner
UserDeleteFlow ==
    /\ \E u \in Users : \E id \in DOMAIN flows :
         /\ get_by_id(flows, id, u) # NoDoc
         /\ flows' = RemoveDoc(flows, id)
         /\ summary_cache' = cache_delete(summary_cache, SummaryKey(flows[id].context_id))
         /\ tool' = Raced(id)
    /\ UNCHANGED <<readVars, streamVars, tool_calls, dismissed_flow_cache, now, created_count,
                   normVars, exVars, turnVars>>

\* PATCH /api/v1/flows/{flow_id}/complete by the owner
UserCompleteFlow ==
    /\ \E u \in Users : \E id \in DOMAIN flows :
         /\ get_by_id(flows, id, u) # NoDoc
         /\ ~flows[id].is_completed
         /\ flows' = [flows EXCEPT ![id].is_completed = TRUE]
         /\ summary_cache' = cache_delete(summary_cache, SummaryKey(flows[id].context_id))
         /\ tool' = Raced(id)
    /\ UNCHANGED <<readVars, streamVars, tool_calls, dismissed_flow_cache, now, created_count,
                   normVars, exVars, turnVars>>

----------------------------------------------------------------------------
(* FlowRepository queries and inserts used by the routes                   *)

DefaultLimit == 50

\* the owner of each context (ContextRepository.get_by_id(context_id, user_id))
ContextOwner(context_id) == IF context_id = "c1" THEN "u1" ELSE "u2"

\* the ids matched by the query of get_all_by_context
ContextQuery(docs, context_id, user_id, include_completed) ==
    { f \in DOMAIN docs :
        /\ docs[f].context_id = context_id
        /\ docs[f].user_id = user_id
        /\ (include_completed \/ ~docs[f].is_completed) }

\* sort("created_at", -1): the documents with ids in S, most recent first
RECURSIVE NewestFirst(_, _)
NewestFirst(docs, S) ==
    IF S = {} THEN <<>>
    ELSE LET newest == CHOOSE f \in S : \A g \in S : docs[g].created_at <= docs[f].created_at
         IN  <<docs[newest]>> \o NewestFirst(docs, S \ {newest})

FirstN(seq, n) == SubSeq(seq, 1, IF Len(seq) < n THEN Len(seq) ELSE n)

\* FlowRepository.get_all_by_context with offset 0
get_all_by_context(docs, context_id, user_id, include_completed, limit) ==
    FirstN(NewestFirst(docs, ContextQuery(docs, context_id, user_id, include_completed)),
           limit)

\* FlowRepository.create: the collection after the insert; unchanged when the
\* context is not the user's (the method returns None)
repo_create(docs, user_id, context_id, flow_data, id, created_at) ==
    IF ContextOwner(context_id) # user_id THEN docs
    ELSE [f \in DOMAIN docs \cup {id} |->
            IF f = id
            THEN FlowDoc(id, user_id, context_id, flow_data.title, flow_data.priority,
                         FALSE, created_at)
            ELSE docs[f]]

\* created_at of the n-th inserted flow: later than every initial flow
CreatedAt(n) == 10 + n

----------------------------------------------------------------------------
(* AIService.generate_context_summary and the flow routes that change a    *)
(* flow next to it                                                         *)

\* the incomplete_flows / completed_flows comprehensions
RECURSIVE Where(_, _)
Where(seq, is_completed) ==
    IF seq = <<>> THEN <<>>
    ELSE (IF seq[1].is_completed = is_completed THEN <<seq[1]>> ELSE <<>>)
         \o Where(Tail(seq), is_completed)

RECURSIVE HighPriority(_)
HighPriority(seq) ==
    IF seq = <<>> THEN <<>>
    ELSE (IF seq[1].priority = "high" THEN <<seq[1]>> ELSE <<>>) \o HighPriority(Tail(seq))

\* ContextSummary(...) built from the list the repository returned (most
\* recent first, so sorting by created_at descending keeps the order);
\* titles is what the prompt, and so summary_text, is made from.
\* g_read_at: the tool call that was current when the list was read, and
\* whether it had changed its flow by then
ContextSummary(context_id, flow_list, g_read_at) ==
    [context_id |-> context_id,
     incomplete_flows_count |-> Len(Where(flow_list, FALSE)),
     completed_flows_count |-> Len(Where(flow_list, TRUE)),
     titles |-> [n \in DOMAIN Where(flow_list, FALSE) |-> Where(flow_list, FALSE)[n].title],
     top_priorities |-> FirstN(HighPriority(Where(flow_list, FALSE)), 3),
     g_read_at |-> g_read_at]

ReadAt(call, mutated) == [call |-> call, mutated |-> mutated]

NoContextSummary == ContextSummary("", <<>>, ReadAt(0, FALSE))

NoSummary ==
    [pc |-> "idle", context_id |-> "", user_id |-> "", flow_list |-> <<>>,
     result |-> NoContextSummary, reads |-> 0, g_cached |-> FALSE,
     g_after_call |-> 0]

SummaryCallers == {<<"c1", "u1">>}

\* cached = await summary_cache.get(cache_key); if cached is not None: return
SummaryGetOf(callers) ==
    /\ summary.pc \in {"idle", "returned"}
    /\ summary.reads < MaxSummaryReads
    /\ \E caller \in callers :
         LET cache_key == SummaryKey(caller[1])
             started == [NoSummary EXCEPT
                            !.context_id = caller[1], !.user_id = caller[2],
                            !.reads = summary.reads + 1,
                            !.g_after_call =
                                IF /\ tool.pc = "done" /\ tool.g_invalidated
                                   /\ tool.flow.context_id = caller[1]
                                THEN tool_calls ELSE 0]
         IN  /\ summary' =
                  IF LiveEntry(summary_cache, cache_key, now)
                  THEN [started EXCEPT !.pc = "returned", !.g_cached = TRUE,
                                       !.result = summary_cache[cache_key].value]
                  ELSE [started EXCEPT !.pc = "reading"]
             /\ summary_cache' = cache_after_get(summary_cache, cache_key, now)
    /\ UNCHANGED <<probe, appends, adapter, starts, recent, streamVars, flows, dismissed_flow_cache, now, created_count,
                   toolVars, turnVars, normVars, exVars>>

SummaryGet == SummaryGetOf(SummaryCallers)

\* the callers of generate_context_summary: for each context its owner and
\* the other user
IsolationCallers == Contexts \X Users

SummaryGetAnyone == SummaryGetOf(IsolationCallers)

\* flows = await flow_repo.get_all_by_context(context_id, user_id), the
\* counts and top priorities, and the summary text (or its fallback)
SummaryRead ==
    /\ summary.pc = "reading"
    /\ LET flow_list == get_all_by_context(flows, summary.context_id, summary.user_id,
                                           FALSE, DefaultLimit)
       IN  summary' = [summary EXCEPT
                          !.pc = "setting", !.flow_list = flow_list,
                          !.result = ContextSummary(summary.context_id, flow_list,
                                                    ReadAt(tool_calls, tool.g_mutated))]
    /\ UNCHANGED <<probe, appends, adapter, starts, recent, streamVars, storeVars, toolVars, turnVars, normVars, exVars>>

\* await summary_cache.set(cache_key, summary, ttl_seconds=300); return summary
SummarySet ==
    /\ summary.pc = "setting"
    /\ summary_cache' = cache_set(summary_cache, SummaryKey(summary.context_id),
                                  summary.result, SummaryTTL, now)
    /\ summary' = [summary EXCEPT !.pc = "returned"]
    /\ UNCHANGED <<probe, appends, adapter, starts, recent, streamVars, flows, dismissed_flow_cache, now, created_count,
                   toolVars, turnVars, normVars, exVars>>

\* the FlowUpdate bodies of PUT /api/v1/flows/{flow_id}: a new priority
FlowUpdates == {[name |-> "update_flow_priority",
                 args |-> [flow_id |-> SAbsent, priority |-> SStr("high"),
                           new_title |-> TAbsent]]}

\* PUT /api/v1/flows/{flow_id} by the owner: verify_flow_ownership, then
\* flow_repo.update, then the response
UserUpdateFlow ==
    /\ others.updates < MaxOtherRequests
    /\ \E u \in Users : \E id \in DOMAIN flows : \E updates \in FlowUpdates :
         /\ get_by_id(flows, id, u) # NoDoc
         /\ flows' = [flows EXCEPT ![id] = UpdatedDoc(@, updates.name, updates.args)]
         /\ tool' = Raced(id)
    /\ others' = [others EXCEPT !.updates = @ + 1]
    /\ UNCHANGED <<readVars, streamVars, tool_calls, summary_cache, dismissed_flow_cache, now,
                   created_count, normVars, exVars, turn>>

----------------------------------------------------------------------------
(* stream_chat: the existing-title snapshot and the extraction pass        *)

RECURSIVE TitleKeys(_)
TitleKeys(docs_seq) ==
    IF docs_seq = <<>> THEN {}
    ELSE {normalize_title(Head(docs_seq).title)} \cup TitleKeys(Tail(docs_seq))

\* Mutant: the key of a created flow is not recorded.
AddTitleKey_forgotten(keys, normalized_title) == keys

\* existing_title_keys.add(normalized_title)
AddTitleKey(keys, normalized_title) == keys \cup {normalized_title}

\* truth value of a cached Python value ("None" is what a miss returns)
Truthy(value) == value \notin {"None", "False", ""}

\* values the dismissal flow may store under a dismissed key
DismissedValues == {"True", ""}
DismissTTL == 1

Title_to_bk == <<"t", "o", " ", "b", "k">>

CandidateItem(title) ==
    [kind |-> "object", title |-> TStr(title), priority |-> SAbsent,
     description |-> SAbsent]

\* what the extraction model may answer in a turn
TurnItems ==
    {CandidateItem(Title_bk), CandidateItem(Title_to_bk)}

TurnExtractCalls(context_id) ==
    { ExtractCall("user: x", context_id, "openai", "ok", Payload("object", "list", items)) :
        items \in SeqsUpTo(TurnItems, MaxCandidates) }
    \cup { ExtractCall("user: x", context_id, "openai", outcome, EmptyPayload) :
               outcome \in {"rate_limit", "timeout", "api_error"} }

\* conversation_text = f"user: {...}\nassistant: {...}"
ConversationText(user, assistant) == [user |-> user, assistant |-> assistant]

NoText == ConversationText(<<>>, <<>>)

\* what a turn leaves behind: the collections and the caches
PersistentState ==
    [flows |-> flows, conversations |-> conversations, summary_cache |-> summary_cache,
     dismissed_flow_cache |-> dismissed_flow_cache]

NoPersistentState ==
    [flows |-> <<>>, conversations |-> <<>>, summary_cache |-> <<>>,
     dismissed_flow_cache |-> <<>>]

NoTurn ==
    [pc |-> "idle", user_id |-> "", context_id |-> "", conversation_id |-> "",
     user_message_added |-> FALSE,
     tools_executed |-> FALSE, existing_title_keys |-> {}, extracted_flows |-> <<>>,
     i |-> 1, created_flows |-> <<>>, g_inserted |-> {}, g_dismissed_live |-> FALSE,
     g_visible_dup |-> FALSE, g_extraction_called |-> FALSE,
     g_extraction_exc |-> "none", g_attempted |-> {}, g_raised |-> {},
     conversation_text |-> NoText, g_at_close |-> NoPersistentState]

NoOthers == [creates |-> 0, dismissals |-> 0, updates |-> 0]

----------------------------------------------------------------------------
(* stream_chat: requests, conversations, frames and provider chunks        *)

Frame(type, token, is_complete, code) ==
    [type |-> type, token |-> token, is_complete |-> is_complete, code |-> code]

TokenFrame(token) == Frame("assistant_token", token, FALSE, "")
CompletionFrame == Frame("assistant_token", "", TRUE, "")
PlainFrame(type) == Frame(type, "", FALSE, "")

AIServiceErrors ==
    {"AIServiceError", "AIRateLimitError", "AIStreamingError", "AIProviderNotSupported"}

\* the except clauses of generate_sse_stream: the one frame sent for exc
ErrorFrame(exc) ==
    Frame("error", "", FALSE,
          IF exc \in AIServiceErrors THEN "ai_service_error" ELSE "internal_error")

\* the parameters of AIService.stream_chat_response besides self
StreamChatResponseParams == {"messages", "context_id", "tools", "available_flows"}

\* the arguments generate_sse_stream passes to stream_chat_response
StreamCallArguments ==
    {"messages", "context_id", "tools", "available_flows", "is_context_switch",
     "context_name"}

\* Python binds a call only when every argument names a parameter; a test
\* double (patch of AIService) accepts any call
AcceptsCall(provider) ==
    provider = "double" \/ StreamCallArguments \subseteq StreamChatResponseParams

\* tokens of the reply: an ordinary one, whitespace, and one longer than a
\* message may be
WordToken == "hi"
BlankToken == " "
LongToken == "long"
MaxContentChars == 10000

StripIsEmpty(full_response) == \A n \in DOMAIN full_response : full_response[n] = BlankToken

RECURSIVE ContentLen(_)
ContentLen(full_response) ==
    IF full_response = <<>> THEN 0
    ELSE (IF Head(full_response) = LongToken THEN MaxContentChars + 1 ELSE 1)
         + ContentLen(Tail(full_response))

\* Message(role, content): min_length 1, max_length 10000
MessageValid(content) == ContentLen(content) \in 1..MaxContentChars

Message(role, content) == [role |-> role, content |-> content]

\* the visible text of a tool result
ResultMessage(result) == result.text

TextChunk(content) ==
    [type |-> "text", content |-> content, name |-> "", json |-> "",
     args |-> IdleTool.args, exc |-> ""]
ToolCallChunk(name, json, args) ==
    [type |-> "tool_call", content |-> "", name |-> name, json |-> json,
     args |-> args, exc |-> ""]
RaiseChunk(exc) ==
    [type |-> "raise", content |-> "", name |-> "", json |-> "",
     args |-> IdleTool.args, exc |-> exc]

ArgsOf(flow_id, priority, new_title) ==
    [flow_id |-> flow_id, priority |-> priority, new_title |-> new_title]

\* json.loads(chunk["arguments"]) gave an object with these members
StreamToolObjects ==
    {ToolCallChunk("mark_flow_complete", "object", ArgsOf(SStr("f1"), SAbsent, TAbsent)),
     ToolCallChunk("mark_flow_complete", "object", ArgsOf(SStr("f9"), SAbsent, TAbsent)),
     ToolCallChunk("delete_flow", "object", ArgsOf(SStr("f1"), SAbsent, TAbsent)),
     ToolCallChunk("update_flow_priority", "object", ArgsOf(SStr("f1"), SStr("urgent"), TAbsent)),
     ToolCallChunk("update_flow_title", "object", ArgsOf(SStr("f1"), SAbsent, TStr(Title_bk))),
     ToolCallChunk("update_flow_title", "object", ArgsOf(SAbsent, SAbsent, TAbsent)),
     ToolCallChunk("create_flow", "object", IdleTool.args)}

\* the arguments were not JSON (json.loads raises, arguments = {}) or JSON
\* that is not an object
StreamToolOddities ==
    {ToolCallChunk("mark_flow_complete", "invalid", IdleTool.args),
     ToolCallChunk("delete_flow", "invalid", IdleTool.args),
     ToolCallChunk("delete_flow", "array", IdleTool.args)}

\* what the provider stream may deliver next, by the richness of the stream
Chunks(alphabet) ==
    IF alphabet = "plain"
    THEN {TextChunk(WordToken), ToolCallChunk("create_flow", "object", IdleTool.args)}
    ELSE {TextChunk(WordToken), TextChunk(BlankToken), TextChunk(LongToken)}
         \cup StreamToolObjects \cup StreamToolOddities
         \cup {RaiseChunk("AIRateLimitError"), RaiseChunk("AIStreamingError")}

\* Mutant: unparseable arguments end the tool call with an exception.
ChunkEarlyResult_aborting(chunk) ==
    IF chunk.name \notin Executors THEN Fail("Unknown tool")
    ELSE IF chunk.json \in {"array", "invalid"} THEN Raised
    ELSE ToolEarlyResult(chunk.name, chunk.args)

\* execute_tool(tool_name, arguments, ...) for the arguments of a chunk
ChunkEarlyResult(chunk) ==
    IF chunk.name \notin Executors THEN Fail("Unknown tool")
    ELSE IF chunk.json = "array" THEN execute_tool_except(Raised)
    ELSE ToolEarlyResult(chunk.name, chunk.args)

\* latest_user_message: the last message of the payload if its role is
\* user, else the most recent user message of the payload; its content, or
\* <<>> for None
RECURSIVE latest_user_message(_)
latest_user_message(messages) ==
    IF messages = <<>> THEN <<>>
    ELSE IF messages[Len(messages)].role = "user" THEN messages[Len(messages)].content
    ELSE latest_user_message(SubSeq(messages, 1, Len(messages) - 1))

\* a ChatRequest of user_id, with latest_user_message as stream_chat
\* computes it before the response starts
TurnRequest(user_id, context_id, conversation_id, messages, is_context_switch) ==
    [user_id |-> user_id, context_id |-> context_id, conversation_id |-> conversation_id,
     messages |-> messages, latest_user |-> latest_user_message(messages),
     is_context_switch |-> is_context_switch]

NoRequest == TurnRequest("", "", "", <<>>, FALSE)

\* the payloads of the model: the new user message alone, a history that
\* ends with an assistant message, and a payload without a user message
UserHi == Message("user", <<WordToken>>)
AssistantHiHi == Message("assistant", <<WordToken, WordToken>>)
PayloadMessages == {<<UserHi>>, <<UserHi, AssistantHiHi>>, <<AssistantHiHi>>}

\* AIService as written, or the double a test patches in its place
Providers == {"AIService", "double"}

\* g_json: what json.loads made of the arguments of the latest tool call;
\* g_results: the results execute_tool returned, in order
NoStream ==
    [provider |-> "double", alphabet |-> "plain", length |-> 0, chunks |-> 0,
     full_response |-> <<>>,
     calls |-> 0, g_provider_failed |-> FALSE, g_tool_failed |-> FALSE,
     g_persisting |-> FALSE, g_appended |-> FALSE, g_json |-> "", g_results |-> <<>>]

\* the turn ends in one of the except clauses of generate_sse_stream
\* Mutant: the error frame is sent and the generator goes on.
Fails_and_goes_on(exc) ==
    /\ frames' = Append(frames, ErrorFrame(exc))
    /\ turn' = turn

Fails(exc) ==
    /\ frames' = Append(frames, ErrorFrame(exc))
    /\ turn' = [turn EXCEPT !.pc = "failed"]

\* Mutant: the update replaces the log by the new message ($set for $push).
append_message_overwriting(convs, conversation_id, message, user_id, t) ==
    IF conversation_id \in DOMAIN convs /\ convs[conversation_id].user_id = user_id
    THEN [raised |-> FALSE,
          convs |-> [convs EXCEPT ![conversation_id].messages = <<message>>,
                                  ![conversation_id].updated_at = t]]
    ELSE [raised |-> TRUE, convs |-> convs]

\* Mutant: the filter of the update has no user_id.
append_message_unfiltered(convs, conversation_id, message, user_id, t) ==
    IF conversation_id \in DOMAIN convs
    THEN [raised |-> FALSE,
          convs |-> [convs EXCEPT ![conversation_id].messages = Append(@, message),
                                  ![conversation_id].updated_at = t]]
    ELSE [raised |-> TRUE, convs |-> convs]

\* ConversationRepository.append_message, find_one_and_update and what
\* follows: the collection after the call, and whether it raised ValueError
\* (no such conversation of the user)
append_message(convs, conversation_id, message, user_id, t) ==
    IF conversation_id \in DOMAIN convs /\ convs[conversation_id].user_id = user_id
    THEN [raised |-> FALSE,
          convs |-> [convs EXCEPT ![conversation_id].messages = Append(@, message),
                                  ![conversation_id].updated_at = t]]
    ELSE [raised |-> TRUE, convs |-> convs]

\* Mutant: the ownership check lets every caller through.
owns_context_anyone(context_id, user_id) == TRUE

\* verify_context_ownership: the context exists and is the caller's
owns_context(context_id, user_id) ==
    context_id \in Contexts /\ ContextOwner(context_id) = user_id

\* stream_chat: the ownership check; HTTPException 404 ends the request
\* before the StreamingResponse exists
TurnAuthorize ==
    /\ turn.pc = "authorizing"
    /\ turn' = [turn EXCEPT !.pc = IF owns_context(turn.context_id, turn.user_id)
                                    THEN "resolving" ELSE "http_error"]
    /\ UNCHANGED <<readVars, streamVars, others, storeVars, toolVars, normVars, exVars>>

NewConversationId == "v2"

ConversationDoc(user_id, context_id, messages) ==
    [user_id |-> user_id, context_id |-> context_id, messages |-> messages,
     updated_at |-> 0]

\* ConversationRepository.get_conversation_by_id: "" stands for None
get_conversation_by_id(convs, conversation_id, user_id) ==
    IF conversation_id \in DOMAIN convs /\ convs[conversation_id].user_id = user_id
    THEN conversation_id ELSE ""

\* ConversationRepository.get_conversations_by_context(..., limit=1): the ids
\* found (the model holds at most one conversation per context and user)
get_conversations_by_context(convs, context_id, user_id) ==
    { v \in DOMAIN convs : convs[v].context_id = context_id /\ convs[v].user_id = user_id }

\* ---- AIService: one operation and its calls of the provider ----

MaxAdapterChunks == 3

AIProviders == {"openai", "anthropic"}

AIOperations == {"stream", "extract", "summary"}

\* RateLimitError, APITimeoutError and any other APIError of the provider's
\* client library (the first two are subclasses of APIError in both)
ProviderFailures == {"rate_limit", "timeout", "api_error"}

NoError == [class |-> "none", message |-> ""]

\* the except clauses of _stream_openai and _stream_anthropic
StreamError(provider, failure) ==
    CASE failure = "rate_limit" ->
             [class |-> "AIRateLimitError", message |-> "rate limit exceeded"]
      [] failure = "timeout" ->
             [class |-> "AIStreamingError", message |-> "request timed out"]
      [] OTHER ->
             [class |-> "AIStreamingError", message |-> "streaming failed"]

\* the except clauses of _extract_flows_openai and _extract_flows_anthropic,
\* then those of extract_flows_from_text, which wraps everything but
\* AIRateLimitError in AIServiceError again
ExtractError(provider, failure) ==
    CASE failure = "rate_limit" ->
             [class |-> "AIRateLimitError", message |-> "Flow extraction rate limit exceeded"]
      [] failure = "timeout" ->
             [class |-> "AIServiceError", message |-> "Failed to extract flows: timed out"]
      [] OTHER ->
             [class |-> "AIServiceError", message |-> "Failed to extract flows: failed"]

\* _extract_flows_openai: a failed first call whose error text names
\* response_format is followed by a call without that parameter
RetriesWithoutFormat(op, provider, calls, mentions_response_format) ==
    /\ op = "extract"
    /\ provider = "openai"
    /\ calls = <<>>
    /\ mentions_response_format

\* a tool call fragment of a chunk: the first one of a call carries id and name
Fragment(index, head, arguments) ==
    [index |-> index, id |-> IF head THEN "call" ELSE "",
     name |-> IF head THEN "fn" ELSE "", arguments |-> arguments]

FragmentIndexes == {0, 1}

Fragments ==
    { Fragment(index, head, arguments) :
        index \in FragmentIndexes, head \in BOOLEAN, arguments \in {<<>>, <<"a">>, <<"b">>} }

\* a chunk of the provider stream: no choices, or a delta with text, tool call
\* fragments, or both; the text stream of the anthropic client has text only
NoChoices == [choices |-> FALSE, content |-> "", tool_calls |-> <<>>]

ProviderChunks(provider) ==
    IF provider = "openai"
    THEN {NoChoices}
         \cup { [choices |-> TRUE, content |-> content, tool_calls |-> delta_tool_calls] :
                  content \in {"", "t"},
                  delta_tool_calls \in {<<>>} \cup { <<fragment>> : fragment \in Fragments } }
    ELSE { [choices |-> TRUE, content |-> "t", tool_calls |-> <<>>] }

TextEvent(content) == [type |-> "text", content |-> content]

ToolCallEvent(tool_call) ==
    [type |-> "tool_call", id |-> tool_call.id, name |-> tool_call.name,
     arguments |-> tool_call.arguments]

\* Mutant: the arguments of a fragment replace what is buffered.
BufferFragment_replacing(buffer, fragment) ==
    IF \E i \in DOMAIN buffer : buffer[i].index = fragment.index
    THEN [ i \in DOMAIN buffer |->
             IF buffer[i].index = fragment.index
             THEN [buffer[i] EXCEPT !.arguments = fragment.arguments]
             ELSE buffer[i] ]
    ELSE Append(buffer, fragment)

\* tool_calls_buffer after one fragment; the dict keeps its keys in the order
\* of their first fragment
BufferFragment(buffer, fragment) ==
    IF \E i \in DOMAIN buffer : buffer[i].index = fragment.index
    THEN [ i \in DOMAIN buffer |->
             IF buffer[i].index = fragment.index
             THEN [buffer[i] EXCEPT !.arguments = @ \o fragment.arguments]
             ELSE buffer[i] ]
    ELSE Append(buffer, fragment)

RECURSIVE BufferFragments(_, _)
BufferFragments(buffer, delta_tool_calls) ==
    IF delta_tool_calls = <<>> THEN buffer
    ELSE BufferFragments(BufferFragment(buffer, Head(delta_tool_calls)),
                         Tail(delta_tool_calls))

\* calls: the outcomes of the provider calls issued so far, in order;
\* g_fragments: the fragments received, in order
NoAdapter ==
    [pc |-> "idle", op |-> "", provider |-> "", calls |-> <<>>, chunks |-> 0,
     events |-> <<>>, tool_calls_buffer |-> <<>>, raised |-> NoError, result |-> "",
     g_failure |-> "none", g_fragments |-> <<>>]

\* stream_chat_response, extract_flows_from_text or generate_context_summary
\* (for a context with flows) up to its call of the provider
AdapterStart ==
    /\ adapter.pc = "idle"
    /\ \E op \in AIOperations : \E provider \in AIProviders :
         adapter' = [NoAdapter EXCEPT !.pc = "calling", !.op = op, !.provider = provider]
    /\ UNCHANGED <<probe, summary, appends, starts, recent, streamVars, storeVars, toolVars, turnVars,
                   normVars, exVars>>

\* what a failed provider call leads to
AfterFailure(failure, mentions_response_format) ==
    LET failed == [adapter EXCEPT !.calls = Append(@, failure), !.g_failure = failure]
    IN  IF RetriesWithoutFormat(adapter.op, adapter.provider, adapter.calls,
                                mentions_response_format)
        THEN [failed EXCEPT !.pc = "calling"]
        ELSE CASE adapter.op = "stream" ->
                      [failed EXCEPT !.pc = "raised",
                                     !.raised = StreamError(adapter.provider, failure)]
               [] adapter.op = "extract" ->
                      [failed EXCEPT !.pc = "raised",
                                     !.raised = ExtractError(adapter.provider, failure)]
               [] OTHER ->
                      [failed EXCEPT !.pc = "returned", !.result = "fallback"]

\* await chat.completions.create / messages.create / messages.stream
AdapterCall ==
    /\ adapter.pc = "calling"
    /\ \/ adapter' = [adapter EXCEPT
                        !.calls = Append(@, "ok"),
                        !.pc = IF adapter.op = "stream" THEN "streaming" ELSE "returned",
                        !.result = IF adapter.op = "stream" THEN "" ELSE "ai"]
       \/ \E failure \in ProviderFailures : \E mentions_response_format \in BOOLEAN :
            adapter' = AfterFailure(failure, mentions_response_format)
    /\ UNCHANGED <<probe, summary, appends, starts, recent, streamVars, storeVars, toolVars, turnVars,
                   normVars, exVars>>

\* one iteration of async for chunk in stream
AdapterChunk ==
    /\ adapter.pc = "streaming"
    /\ adapter.chunks < MaxAdapterChunks
    /\ \E chunk \in ProviderChunks(adapter.provider) :
         adapter' =
             IF ~chunk.choices THEN [adapter EXCEPT !.chunks = @ + 1]
             ELSE [adapter EXCEPT
                     !.chunks = @ + 1,
                     !.events = IF chunk.content # "" THEN Append(@, TextEvent(chunk.content))
                                ELSE @,
                     !.tool_calls_buffer = BufferFragments(@, chunk.tool_calls),
                     !.g_fragments = @ \o chunk.tool_calls]
    /\ UNCHANGED <<probe, summary, appends, starts, recent, streamVars, storeVars, toolVars, turnVars,
                   normVars, exVars>>

\* the provider stream fails while it is read
AdapterStreamFails ==
    /\ adapter.pc = "streaming"
    /\ \E failure \in ProviderFailures :
         adapter' = [adapter EXCEPT !.pc = "raised", !.g_failure = failure,
                                    !.raised = StreamError(adapter.provider, failure)]
    /\ UNCHANGED <<probe, summary, appends, starts, recent, streamVars, storeVars, toolVars, turnVars,
                   normVars, exVars>>

\* the provider stream ends: _stream_openai yields the buffered tool calls
AdapterStreamEnds ==
    /\ adapter.pc = "streaming"
    /\ adapter' =
           [adapter EXCEPT
              !.pc = "returned",
              !.events = @ \o [i \in DOMAIN adapter.tool_calls_buffer |->
                                 ToolCallEvent(adapter.tool_calls_buffer[i])]]
    /\ UNCHANGED <<probe, summary, appends, starts, recent, streamVars, storeVars, toolVars, turnVars,
                   normVars, exVars>>

NoConversations == <<>>

\* strings that ObjectId() accepts as a conversation id
ValidConversationIds == {"v1", "v2", "v3", "v9"}

AppendConversationIds == {"v1", "v3", "v9", "bad"}

NoConversation == ConversationDoc("", "", <<>>)

NoAppend ==
    [pc |-> "idle", conversation_id |-> "", message |-> Message("", <<>>),
     user_id |-> "", result |-> NoConversation, g_concurrent |-> FALSE]

\* g_initial: the collection before the first call; g_concurrent of a call:
\* another call was between its start and its update when this one updated
NoAppends ==
    [calls |-> [n \in 1..MaxAppends |-> NoAppend], g_initial |-> NoConversations]

\* append_message up to its await: model_dump, then ObjectId(conversation_id),
\* which raises ValueError for a string that is no ObjectId
AppendStart ==
    /\ \E n \in 1..MaxAppends :
         /\ appends.calls[n].pc = "idle"
         /\ \A k \in 1..(n - 1) : appends.calls[k].pc # "idle"
         /\ \E conversation_id \in AppendConversationIds : \E user_id \in Users :
            \E message \in {UserHi, AssistantHiHi} :
              appends' = [appends EXCEPT
                            !.calls[n] =
                                [NoAppend EXCEPT
                                    !.pc = IF conversation_id \in ValidConversationIds
                                           THEN "update" ELSE "raised",
                                    !.conversation_id = conversation_id,
                                    !.message = message, !.user_id = user_id]]
    /\ UNCHANGED <<probe, summary, adapter, starts, recent, streamVars, storeVars, toolVars, turnVars,
                   normVars, exVars>>

\* await self.collection.find_one_and_update({_id, user_id}, {$push, $set});
\* ValueError when nothing matched, else the updated Conversation
AppendUpdate ==
    /\ \E n \in 1..MaxAppends :
         /\ appends.calls[n].pc = "update"
         /\ LET call == appends.calls[n]
                r == append_message(conversations, call.conversation_id, call.message,
                                    call.user_id, now)
            IN  /\ conversations' = r.convs
                /\ appends' = [appends EXCEPT
                                  !.calls[n].pc = IF r.raised THEN "raised" ELSE "returned",
                                  !.calls[n].result =
                                      IF r.raised THEN NoConversation
                                      ELSE r.convs[call.conversation_id],
                                  !.calls[n].g_concurrent =
                                      \E k \in 1..MaxAppends :
                                          k # n /\ appends.calls[k].pc = "update"]
    /\ UNCHANGED <<probe, summary, adapter, starts, recent, request, stream, frames, storeVars, toolVars,
                   turnVars, normVars, exVars>>

\* stream_chat: the conversation named by the request, else the latest of the
\* context, else a new one
TurnResolveConversation ==
    /\ turn.pc = "resolving"
    /\ LET named == IF request.conversation_id = "" THEN ""
                    ELSE get_conversation_by_id(conversations, request.conversation_id,
                                                turn.user_id)
           existing == get_conversations_by_context(conversations, turn.context_id,
                                                    turn.user_id)
       IN  IF named # ""
           THEN /\ turn' = [turn EXCEPT !.pc = "appending", !.conversation_id = named]
                /\ UNCHANGED conversations
           ELSE IF existing # {}
           THEN /\ turn' = [turn EXCEPT !.pc = "appending",
                                        !.conversation_id = CHOOSE v \in existing : TRUE]
                /\ UNCHANGED conversations
           ELSE /\ conversations' =
                     [v \in DOMAIN conversations \cup {NewConversationId} |->
                        IF v = NewConversationId
                        THEN [ConversationDoc(turn.user_id, turn.context_id, <<>>)
                                  EXCEPT !.updated_at = now]
                        ELSE conversations[v]]
                /\ turn' = [turn EXCEPT !.pc = "appending",
                                        !.conversation_id = NewConversationId]
    /\ UNCHANGED <<readVars, request, stream, frames, others, storeVars, toolVars, normVars, exVars>>

\* Mutant: the duplicate check ignores who wrote the last message.
duplicate_context_switch_any_role(req, messages) ==
    /\ req.is_context_switch
    /\ messages # <<>>
    /\ messages[Len(messages)].content = req.latest_user

\* duplicate_context_switch: the latest user message repeats the last message
\* of the conversation on a context switch
duplicate_context_switch(req, messages) ==
    /\ req.is_context_switch
    /\ messages # <<>>
    /\ messages[Len(messages)].role = "user"
    /\ messages[Len(messages)].content = req.latest_user

\* stream_chat: the latest user message of the payload is appended to the
\* conversation, unless there is none or it is a context-switch duplicate
TurnAppendUserMessage ==
    /\ turn.pc = "appending"
    /\ IF \/ request.latest_user = <<>>
          \/ duplicate_context_switch(request, conversations[turn.conversation_id].messages)
       THEN /\ turn' = [turn EXCEPT !.pc = "snapshot", !.user_message_added = FALSE]
            /\ UNCHANGED conversations
       ELSE LET r == append_message(conversations, turn.conversation_id,
                                    Message("user", request.latest_user), turn.user_id,
                                    now)
            IN  /\ conversations' = r.convs
                /\ turn' = [turn EXCEPT !.pc = "snapshot",
                                        !.user_message_added = ~r.raised]
    /\ UNCHANGED <<readVars, request, stream, frames, others, storeVars, toolVars, normVars, exVars>>

\* stream_chat after the conversation is resolved: the context's visible
\* flows are read and their title keys collected
TurnSnapshot ==
    /\ turn.pc = "snapshot"
    /\ LET flows_read == get_all_by_context(flows, turn.context_id, turn.user_id,
                                            FALSE, DefaultLimit)
       IN  turn' = [turn EXCEPT !.pc = "streaming",
                                !.existing_title_keys = TitleKeys(flows_read)]
    /\ UNCHANGED <<readVars, streamVars, others, storeVars, toolVars, normVars, exVars>>

----------------------------------------------------------------------------
(* stream_chat: the provider stream and the tool calls in it               *)

\* generate_sse_stream, step 1: ai_service.stream_chat_response(...) is called
StreamOpen ==
    /\ turn.pc = "streaming"
    /\ IF AcceptsCall(stream.provider)
       THEN /\ turn' = [turn EXCEPT !.pc = "chunks"]
            /\ stream' = [stream EXCEPT !.calls = @ + 1]
            /\ UNCHANGED frames
       ELSE /\ Fails("TypeError")
            /\ UNCHANGED stream
    /\ UNCHANGED <<readVars, request, conversations, others, storeVars, toolVars, normVars, exVars>>

\* a text chunk arrives
StreamText ==
    /\ turn.pc = "chunks"
    /\ stream.chunks < stream.length
    /\ \E chunk \in Chunks(stream.alphabet) :
         /\ chunk.type = "text"
         /\ stream' = [stream EXCEPT !.chunks = @ + 1,
                                     !.full_response = Append(@, chunk.content)]
         /\ frames' = Append(frames, TokenFrame(chunk.content))
    /\ UNCHANGED <<readVars, turn, request, conversations, others, storeVars, toolVars,
                   normVars, exVars>>

\* Mutant: the result of a tool is not shown to the user.
ToolResultFrames_silent(result) == <<PlainFrame("tool_executed")>>

\* the frames stream_chat yields once execute_tool has returned
ToolResultFrames(result) ==
    <<PlainFrame("tool_executed"), TokenFrame(ResultMessage(result))>>

\* a tool_call chunk arrives: its arguments are parsed and execute_tool runs
\* up to the executor's first await
StreamToolCall ==
    /\ turn.pc = "chunks"
    /\ stream.chunks < stream.length
    /\ \E chunk \in Chunks(stream.alphabet) :
         /\ chunk.type = "tool_call"
         /\ tool' = ToolStarted(chunk.name, chunk.args, turn.user_id,
                                ChunkEarlyResult(chunk))
         /\ stream' = [stream EXCEPT !.chunks = @ + 1, !.g_json = chunk.json]
    /\ tool_calls' = tool_calls + 1
    /\ turn' = [turn EXCEPT !.pc = "tool", !.tools_executed = TRUE]
    /\ UNCHANGED <<readVars, frames, request, conversations, others, storeVars, normVars, exVars>>

\* execute_tool returned: tool_executed and the result as a visible token;
\* an exception out of execute_tool would end the turn
StreamToolResult ==
    /\ turn.pc = "tool"
    /\ tool.pc = "done"
    /\ IF tool.result = Raised
       THEN /\ Fails("Exception")
            /\ UNCHANGED stream
       ELSE /\ frames' = frames \o ToolResultFrames(tool.result)
            /\ stream' = [stream EXCEPT
                            !.full_response = Append(@, ResultMessage(tool.result)),
                            !.g_tool_failed = @ \/ ~tool.result.success,
                            !.g_results = Append(@, tool.result)]
            /\ turn' = [turn EXCEPT !.pc = "chunks"]
    /\ UNCHANGED <<readVars, request, conversations, others, storeVars, toolVars, normVars, exVars>>

\* the provider fails while the stream is consumed
StreamRaises ==
    /\ turn.pc = "chunks"
    /\ stream.chunks < stream.length
    /\ \E chunk \in Chunks(stream.alphabet) :
         /\ chunk.type = "raise"
         /\ Fails(chunk.exc)
    /\ stream' = [stream EXCEPT !.chunks = @ + 1, !.g_provider_failed = TRUE]
    /\ UNCHANGED <<readVars, request, conversations, others, storeVars, toolVars, normVars, exVars>>

\* the provider stream ends: the completion token is sent
StreamEnd ==
    /\ turn.pc = "chunks"
    /\ frames' = Append(frames, CompletionFrame)
    /\ turn' = [turn EXCEPT !.pc = "persisting"]
    /\ UNCHANGED <<readVars, stream, request, conversations, others, storeVars, toolVars,
                   normVars, exVars>>

\* the assistant reply is persisted when it is not blank, then
\* conversation_updated is sent
TurnPersistAssistant ==
    /\ turn.pc = "persisting"
    /\ IF StripIsEmpty(stream.full_response)
       THEN /\ frames' = Append(frames, PlainFrame("conversation_updated"))
            /\ turn' = [turn EXCEPT !.pc = "extracting"]
            /\ stream' = [stream EXCEPT !.g_persisting = TRUE]
            /\ UNCHANGED conversations
       ELSE IF ~MessageValid(stream.full_response)
       THEN /\ Fails("ValidationError")
            /\ stream' = [stream EXCEPT !.g_persisting = TRUE]
            /\ UNCHANGED conversations
       ELSE LET r == append_message(conversations, turn.conversation_id,
                                    Message("assistant", stream.full_response),
                                    turn.user_id, now)
            IN  /\ conversations' = r.convs
                /\ frames' = Append(frames, PlainFrame("conversation_updated"))
                /\ turn' = [turn EXCEPT !.pc = "extracting"]
                /\ stream' = [stream EXCEPT !.g_persisting = TRUE,
                                            !.g_appended = ~r.raised]
    /\ UNCHANGED <<readVars, request, others, storeVars, toolVars, normVars, exVars>>

\* Mutant: closing the generator empties the logs of the conversations.
OnClose_rolling_back(state) ==
    [state EXCEPT !.conversations =
                      [v \in DOMAIN state.conversations |->
                         [state.conversations[v] EXCEPT !.messages = <<>>]]]

\* generate_sse_stream closed at a yield: its except clauses catch
\* AIServiceError and Exception, not GeneratorExit or CancelledError, and it
\* has no finally clause, so no statement of it runs
OnClose(state) == state

\* the client disconnects while the generator is suspended after a frame (a
\* token, tool_executed, the completion token or conversation_updated): the
\* transport stops reading and the generator is closed
Disconnect ==
    /\ turn.pc \in {"chunks", "persisting", "extracting"}
    /\ frames # <<>>
    /\ LET after == OnClose(PersistentState)
       IN  /\ flows' = after.flows
           /\ conversations' = after.conversations
           /\ summary_cache' = after.summary_cache
           /\ dismissed_flow_cache' = after.dismissed_flow_cache
    /\ turn' = [turn EXCEPT !.pc = "closed", !.g_at_close = PersistentState]
    /\ UNCHANGED <<readVars, request, stream, frames, others, now, created_count, toolVars,
                   normVars, exVars>>

\* Mutant: extraction also runs after tool calls.
SkipExtraction_ignoring_tools(tools_executed, user_message_added) == ~user_message_added

\* if tools_executed: ... elif not user_message_added: ...
SkipExtraction(tools_executed, user_message_added) ==
    tools_executed \/ ~user_message_added

\* Mutant: step 2 without its except clause.
ExtractionSuppressed_never(exc) == FALSE

\* except AIServiceError as e: the failure is logged and the turn goes on
ExtractionSuppressed(exc) == exc \in AIServiceErrors

\* generate_sse_stream, step 2: extraction from the latest exchange, skipped
\* after a tool call or without a new user message; an AIServiceError of the
\* extraction is logged and leaves extracted_flows empty
TurnExtract ==
    /\ turn.pc = "extracting"
    /\ IF SkipExtraction(turn.tools_executed, turn.user_message_added)
       THEN /\ turn' = [turn EXCEPT !.pc = "creating", !.extracted_flows = <<>>, !.i = 1]
            /\ UNCHANGED frames
       ELSE \E call \in TurnExtractCalls(turn.context_id) :
              LET r == extract_flows_from_text(call)
                  called == [turn EXCEPT
                                !.g_extraction_called = TRUE,
                                !.g_extraction_exc = r.exc,
                                !.conversation_text =
                                    ConversationText(
                                        request.messages[Len(request.messages)].content,
                                        stream.full_response)]
              IN  IF r.exc = "none" \/ ExtractionSuppressed(r.exc)
                  THEN /\ turn' = [called EXCEPT
                                      !.pc = "creating", !.i = 1,
                                      !.extracted_flows =
                                          IF r.exc = "none" THEN r.flows ELSE <<>>]
                       /\ UNCHANGED frames
                  ELSE /\ frames' = Append(frames, ErrorFrame(r.exc))
                       /\ turn' = [called EXCEPT !.pc = "failed"]
    /\ UNCHANGED <<readVars, request, conversations, stream, others, storeVars, toolVars,
                   normVars, exVars>>

\* a visible flow of the context with this title key (ghost fields only)
VisibleWithKey(docs, context_id, normalized_title) ==
    \E f \in DOMAIN docs :
        /\ docs[f].context_id = context_id
        /\ ~docs[f].is_completed
        /\ normalize_title(docs[f].title) = normalized_title

\* Mutant: an exception of flow_repo.create ends the loop.
AfterCreateRaised_stops(i, n) == n + 1

\* except Exception as e: logged, and the loop goes on with the next flow
AfterCreateRaised(i, n) == i + 1

\* generate_sse_stream, step 3: one iteration of the loop over
\* extracted_flows; flow_repo.create either inserts or raises
TurnCreateFlow ==
    /\ turn.pc = "creating"
    /\ turn.i <= Len(turn.extracted_flows)
    /\ LET flow == turn.extracted_flows[turn.i]
           normalized_title == normalize_title(flow.title)
           dismissed_key == DismissedKey(turn.context_id, normalized_title)
           dismissed_recently == cache_get(dismissed_flow_cache, dismissed_key, now)
           id == NewFlowIds[created_count + 1]
       IN  /\ dismissed_flow_cache' = cache_after_get(dismissed_flow_cache, dismissed_key, now)
           /\ IF Truthy(dismissed_recently) \/ normalized_title \in turn.existing_title_keys
              THEN /\ turn' = [turn EXCEPT !.i = @ + 1,
                                            !.g_attempted = @ \cup {turn.i}]
                   /\ UNCHANGED <<flows, created_count>>
              ELSE \E raises \in BOOLEAN :
                     IF raises
                     THEN /\ turn' = [turn EXCEPT
                                !.i = AfterCreateRaised(turn.i, Len(turn.extracted_flows)),
                                !.g_attempted = @ \cup {turn.i},
                                !.g_raised = @ \cup {turn.i}]
                          /\ UNCHANGED <<flows, created_count>>
                     ELSE IF ContextOwner(turn.context_id) # turn.user_id
                     THEN /\ turn' = [turn EXCEPT !.i = @ + 1,
                                                  !.g_attempted = @ \cup {turn.i}]
                          /\ UNCHANGED <<flows, created_count>>
                     ELSE /\ flows' = repo_create(flows, turn.user_id, turn.context_id,
                                                  flow, id, CreatedAt(created_count + 1))
                          /\ created_count' = created_count + 1
                          /\ turn' = [turn EXCEPT
                                !.i = @ + 1,
                                !.g_attempted = @ \cup {turn.i},
                                !.created_flows = Append(@, flows'[id]),
                                !.existing_title_keys = AddTitleKey(@, normalized_title),
                                !.g_inserted = @ \cup {id},
                                !.g_dismissed_live = @ \/ LiveEntry(dismissed_flow_cache,
                                                                    dismissed_key, now),
                                !.g_visible_dup = @ \/ VisibleWithKey(flows, turn.context_id,
                                                                      normalized_title)]
    /\ UNCHANGED <<readVars, streamVars, others, summary_cache, now, toolVars, normVars, exVars>>

\* Mutant: flows_extracted is sent whether or not a flow was created.
FinishFrames_always(created_flows) == <<PlainFrame("flows_extracted"), PlainFrame("done")>>

\* flows_extracted if any flow was created, then done
FinishFrames(created_flows) ==
    (IF created_flows # <<>> THEN <<PlainFrame("flows_extracted")>> ELSE <<>>)
    \o <<PlainFrame("done")>>

\* generate_sse_stream, steps 4 and 5: the summary of the context is
\* invalidated when a flow was created, then flows_extracted and done
TurnFinish ==
    /\ turn.pc = "creating"
    /\ turn.i > Len(turn.extracted_flows)
    /\ summary_cache' = IF turn.created_flows # <<>>
                        THEN cache_delete(summary_cache, SummaryKey(turn.context_id))
                        ELSE summary_cache
    /\ frames' = frames \o FinishFrames(turn.created_flows)
    /\ turn' = [turn EXCEPT !.pc = "done"]
    /\ UNCHANGED <<readVars, request, conversations, stream, others, flows, dismissed_flow_cache,
                   now, created_count, toolVars, normVars, exVars>>

\* POST /api/v1/flows by the owner of the context, from another request
OtherCreateFlow ==
    /\ others.creates + others.dismissals < MaxOtherRequests
    /\ \E title \in {Title_bk, Title_fl} :
         LET id == NewFlowIds[created_count + 1]
             flow_data == FlowCreate("c1", title, "None", "medium")
         IN  /\ flows' = repo_create(flows, ContextOwner("c1"), "c1", flow_data, id,
                                     CreatedAt(created_count + 1))
             /\ summary_cache' = cache_delete(summary_cache, SummaryKey("c1"))
    /\ created_count' = created_count + 1
    /\ others' = [others EXCEPT !.creates = @ + 1]
    /\ UNCHANGED <<readVars, streamVars, turn, dismissed_flow_cache, now, toolVars, normVars, exVars>>

\* the dismissal flow: dismissed_flow_cache.set(key, value, ttl) for a
\* suggestion the user rejected
DismissFlow ==
    /\ others.creates + others.dismissals < MaxOtherRequests
    /\ \E title \in {Title_bk, Title_fl} : \E value \in DismissedValues :
         dismissed_flow_cache' =
             cache_set(dismissed_flow_cache,
                       DismissedKey("c1", normalize_title(title)),
                       value, DismissTTL, now)
    /\ others' = [others EXCEPT !.dismissals = @ + 1]
    /\ UNCHANGED <<readVars, streamVars, turn, flows, summary_cache, now, created_count,
                   toolVars, normVars, exVars>>

\* a second passes
Tick ==
    /\ now < MaxTime
    /\ now' = now + 1
    /\ UNCHANGED <<readVars, streamVars, turn, others, flows, summary_cache, dismissed_flow_cache,
                   created_count, toolVars, normVars, exVars>>

----------------------------------------------------------------------------
(* stream_chat before the stream: conversation resolution and the append   *)
(* of the user message, for requests that run concurrently                 *)

\* the requests in flight
StartIds == {"a", "b"}

\* a conversation document as a request holds it, with its id
NoSnapshot == [id |-> "", user_id |-> "", context_id |-> "", messages |-> <<>>]

Snapshot(convs, v) ==
    [id |-> v, user_id |-> convs[v].user_id, context_id |-> convs[v].context_id,
     messages |-> convs[v].messages]

\* g_stored: the messages the conversation held when the request appended or
\* skipped; g_created: the request inserted a conversation
NoStart ==
    [pc |-> "idle", request |-> NoRequest, conversation |-> NoSnapshot,
     user_message_added |-> FALSE, g_stored |-> <<>>, g_created |-> FALSE]

NoStarts == [i \in StartIds |-> NoStart]

\* a context of u1 other than c1
OtherContext == "c3"

UserHiHi == Message("user", <<WordToken, WordToken>>)

StartPayloads == {<<UserHi>>, <<UserHiHi>>, <<AssistantHiHi>>}

\* the requests of u1 in context c1, which u1 owns
StartRequests ==
    { TurnRequest("u1", "c1", v, m, s) :
        v \in {"", "v1", "v3", "v5"}, m \in StartPayloads, s \in BOOLEAN }

\* v3 is another user's, v5 is u1's in another context; v1 and v4 are u1's
\* in c1, v4 the one updated last
StartInitialConversations ==
    LET fixed == [v \in {"v3", "v5"} |->
                    IF v = "v3" THEN ConversationDoc("u2", "c2", <<>>)
                    ELSE [ConversationDoc("u1", OtherContext, <<UserHi>>)
                              EXCEPT !.updated_at = 1]]
        with(convs, v, doc) ==
            [w \in DOMAIN convs \cup {v} |-> IF w = v THEN doc ELSE convs[w]]
        v1s == { ConversationDoc("u1", "c1", m) :
                   m \in {<<>>, <<UserHi>>, <<UserHi, AssistantHiHi>>} }
        v4 == [ConversationDoc("u1", "c1", <<UserHi>>) EXCEPT !.updated_at = 1]
        base == {fixed} \cup { with(fixed, "v1", d) : d \in v1s }
    IN  base \cup { with(convs, "v4", v4) : convs \in base }

\* the ids MongoDB gives to inserted conversations
InsertedConversationIds == <<"v6", "v7">>

\* Mutant: the conversation updated first is taken.
most_recent_oldest(convs, ids) ==
    { v \in ids : \A w \in ids : convs[w].updated_at >= convs[v].updated_at }

\* sort("updated_at", -1).limit(1): a conversation no other one of the set
\* was updated after
most_recent(convs, ids) ==
    { v \in ids : \A w \in ids : convs[w].updated_at <= convs[v].updated_at }

\* conversation_repo.get_conversation_by_id(conversation_id, user_id) of a
\* request that names a conversation
StartById(i) ==
    /\ starts[i].pc = "start"
    /\ starts[i].request.conversation_id # ""
    /\ LET req == starts[i].request
           named == get_conversation_by_id(conversations, req.conversation_id, req.user_id)
       IN  starts' = [starts EXCEPT
                        ![i].pc = IF named = "" THEN "by_context" ELSE "append",
                        ![i].conversation =
                            IF named = "" THEN NoSnapshot ELSE Snapshot(conversations, named)]
    /\ UNCHANGED <<probe, summary, appends, adapter, recent, streamVars, storeVars,
                   toolVars, turnVars, normVars, exVars>>

\* conversation_repo.get_conversations_by_context(context_id, user_id, limit=1)
StartByContext(i) ==
    /\ \/ starts[i].pc = "by_context"
       \/ starts[i].pc = "start" /\ starts[i].request.conversation_id = ""
    /\ LET req == starts[i].request
           existing == get_conversations_by_context(conversations, req.context_id,
                                                    req.user_id)
       IN  IF existing = {}
           THEN starts' = [starts EXCEPT ![i].pc = "create"]
           ELSE \E v \in most_recent(conversations, existing) :
                    starts' = [starts EXCEPT ![i].pc = "append",
                                             ![i].conversation = Snapshot(conversations, v)]
    /\ UNCHANGED <<probe, summary, appends, adapter, recent, streamVars, storeVars,
                   toolVars, turnVars, normVars, exVars>>

\* conversation_repo.create_conversation(context_id, user_id)
StartCreate(i) ==
    /\ starts[i].pc = "create"
    /\ LET req == starts[i].request
           free == { n \in DOMAIN InsertedConversationIds :
                       InsertedConversationIds[n] \notin DOMAIN conversations }
           v == InsertedConversationIds[CHOOSE n \in free : \A m \in free : n <= m]
           doc == [ConversationDoc(req.user_id, req.context_id, <<>>)
                       EXCEPT !.updated_at = now]
       IN  /\ conversations' = [w \in DOMAIN conversations \cup {v} |->
                                   IF w = v THEN doc ELSE conversations[w]]
           /\ starts' = [starts EXCEPT ![i].pc = "append", ![i].g_created = TRUE,
                                       ![i].conversation = Snapshot(conversations', v)]
    /\ now' = now + 1
    /\ UNCHANGED <<probe, summary, appends, adapter, recent, request, stream, frames,
                   flows, summary_cache, dismissed_flow_cache, created_count,
                   toolVars, turnVars, normVars, exVars>>

\* lines 200-241: the latest user message is appended unless the conversation
\* as the request fetched it ends with the same user message on a context
\* switch
StartAppend(i) ==
    /\ starts[i].pc = "append"
    /\ LET req == starts[i].request
           conversation == starts[i].conversation
           appended == append_message(conversations, conversation.id,
                                      Message("user", req.latest_user), req.user_id, now)
           stored == conversations[conversation.id].messages
       IN  IF req.latest_user = <<>> \/ duplicate_context_switch(req, conversation.messages)
           THEN /\ starts' = [starts EXCEPT ![i].pc = "done", ![i].g_stored = stored]
                /\ UNCHANGED <<conversations, now>>
           ELSE /\ conversations' = appended.convs
                /\ starts' = [starts EXCEPT ![i].pc = "done", ![i].g_stored = stored,
                                            ![i].user_message_added = ~appended.raised]
                /\ now' = now + 1
    /\ UNCHANGED <<probe, summary, appends, adapter, recent, request, stream, frames,
                   flows, summary_cache, dismissed_flow_cache, created_count,
                   toolVars, turnVars, normVars, exVars>>

----------------------------------------------------------------------------
(* ConversationRepository.get_recent_messages                              *)

NoRecent ==
    [pc |-> "idle", conversation_id |-> "", user_id |-> "", limit |-> 0,
     result |-> <<>>]

\* xs[start:] of Python: a negative start counts from the end, and both are
\* clipped to the list
SliceFrom(xs, start) ==
    LET n == Len(xs)
        first == IF start < 0 THEN (IF n + start < 0 THEN 0 ELSE n + start)
                 ELSE (IF start > n THEN n ELSE start)
    IN  SubSeq(xs, first + 1, n)

\* get_recent_messages(conversation_id, user_id, limit)
get_recent_messages(convs, conversation_id, user_id, limit) ==
    LET conversation == get_conversation_by_id(convs, conversation_id, user_id)
    IN  IF conversation = "" THEN <<>>
        ELSE SliceFrom(convs[conversation].messages, 0 - limit)

\* the logs of bounded length
RECURSIVE MessageLogs(_)
MessageLogs(n) ==
    IF n = 0 THEN {<<>>}
    ELSE MessageLogs(n - 1)
            \cup { Append(log, m) : log \in { l \in MessageLogs(n - 1) : Len(l) = n - 1 },
                                    m \in {UserHi, AssistantHiHi} }

\* conversation v1 of u1 with every bounded log, next to v3 of u2
RecentConversations ==
    { [v \in {"v1", "v3"} |->
          IF v = "v1" THEN ConversationDoc("u1", "c1", log)
          ELSE ConversationDoc("u2", "c2", <<UserHi>>)] : log \in MessageLogs(MaxRecentMessages) }

RecentLimits == (0 - 1)..(MaxRecentMessages + 1)

\* the call returns
RecentCall ==
    /\ recent.pc = "input"
    /\ recent' = [recent EXCEPT
                    !.pc = "done",
                    !.result = get_recent_messages(conversations, recent.conversation_id,
                                                   recent.user_id, recent.limit)]
    /\ UNCHANGED <<probe, summary, appends, adapter, starts, streamVars, storeVars,
                   toolVars, turnVars, normVars, exVars>>

----------------------------------------------------------------------------
(* Idle values of each group of variables, for the specifications that do  *)
(* not use the group                                                       *)

IdleNorm ==
    /\ norm_in = <<>>
    /\ norm_out = NoKey
    /\ norm_pc = "idle"

IdleEx ==
    /\ ex_call = IdleCall
    /\ ex_result = NoResult
    /\ ex_pc = "idle"

IdleStore ==
    /\ flows = [f \in {} |-> NoDoc]
    /\ summary_cache = EmptyCache
    /\ dismissed_flow_cache = EmptyCache
    /\ now = 0
    /\ created_count = 0

IdleTools ==
    /\ tool = IdleTool
    /\ tool_calls = 0

IdleRead ==
    /\ probe = NoProbe
    /\ summary = NoSummary
    /\ appends = NoAppends
    /\ adapter = NoAdapter
    /\ starts = NoStarts
    /\ recent = NoRecent

IdleTurn ==
    /\ turn = NoTurn
    /\ others = NoOthers
    /\ request = NoRequest
    /\ conversations = NoConversations
    /\ stream = NoStream
    /\ frames = <<>>

----------------------------------------------------------------------------
(* Specification SpecNorm: _normalize_title applied to every bounded title *)

InitNorm ==
    /\ norm_in \in BoundedTitles
    /\ norm_out = NoKey
    /\ norm_pc = "input"
    /\ IdleEx /\ IdleStore /\ IdleTools /\ IdleTurn /\ IdleRead

NormalizeTitle ==
    /\ norm_pc = "input"
    /\ norm_out' = normalize_title(norm_in)
    /\ norm_pc' = "done"
    /\ UNCHANGED <<readVars, streamVars, norm_in, exVars, storeVars, toolVars, turnVars>>

NextNorm == NormalizeTitle

SpecNorm == InitNorm /\ [][NextNorm]_vars

----------------------------------------------------------------------------
(* Specification SpecParse: extract_flows_from_text on every bounded call  *)

InitParse ==
    /\ ex_call \in ExtractCalls
    /\ ex_result = NoResult
    /\ ex_pc = "input"
    /\ IdleNorm /\ IdleStore /\ IdleTools /\ IdleTurn /\ IdleRead

ExtractFlows ==
    /\ ex_pc = "input"
    /\ ex_result' = extract_flows_from_text(ex_call)
    /\ ex_pc' = "done"
    /\ UNCHANGED <<readVars, streamVars, ex_call, normVars, storeVars, toolVars, turnVars>>

NextParse == ExtractFlows

SpecParse == InitParse /\ [][NextParse]_vars

----------------------------------------------------------------------------
(* Specification SpecTools: tool calls of user u1 interleaved with the     *)
(* owners' own deletions and completions                                   *)

InitialFlows ==
    [f \in {"f1", "f2", "f3"} |->
        CASE f = "f1" -> FlowDoc("f1", "u1", "c1", Title_bk, "medium", FALSE, 1)
          [] f = "f2" -> FlowDoc("f2", "u1", "c1", Title_fl, "low", TRUE, 2)
          [] f = "f3" -> FlowDoc("f3", "u2", "c2", Title_bk, "medium", FALSE, 3)]

CachedSummaries ==
    [k \in {SummaryKey(c) : c \in Contexts} |->
        [value |-> "summary", expires_at |-> SummaryTTL]]

InitTools ==
    /\ flows = InitialFlows
    /\ summary_cache = CachedSummaries
    /\ dismissed_flow_cache = EmptyCache
    /\ now = 0
    /\ created_count = 0
    /\ IdleTools
    /\ IdleNorm /\ IdleEx /\ IdleTurn /\ IdleRead

NextTools ==
    \/ StartTool
    \/ ToolLookup
    \/ ToolMarkCompleteCheck
    \/ ToolMarkCompleteUpdate
    \/ ToolMutate
    \/ ToolInvalidate
    \/ UserDeleteFlow
    \/ UserCompleteFlow

SpecTools == InitTools /\ [][NextTools]_vars

----------------------------------------------------------------------------
(* Specification Spec: one chat turn of user u1 in context c1, from the    *)
(* title snapshot to done, interleaved with other requests and the clock   *)

TurnInitialFlows ==
    [f \in {"f1", "f2"} |->
        CASE f = "f1" -> FlowDoc("f1", "u1", "c1", Title_fl, "medium", TRUE, 1)
          [] f = "f2" -> FlowDoc("f2", "u2", "c2", Title_bk, "medium", FALSE, 2)]

Init ==
    /\ flows = TurnInitialFlows
    /\ summary_cache = CachedSummaries
    /\ dismissed_flow_cache = EmptyCache
    /\ now = 0
    /\ created_count = 0
    /\ \E user_message_added \in BOOLEAN :
         /\ turn = [NoTurn EXCEPT !.pc = "snapshot", !.user_id = "u1",
                                  !.context_id = "c1", !.conversation_id = "v1",
                                  !.user_message_added = user_message_added]
         /\ request = TurnRequest("u1", "c1", "v1", <<UserHi>>, ~user_message_added)
         /\ conversations = [v \in {"v1"} |->
                                ConversationDoc("u1", "c1", <<Message("user", <<WordToken>>)>>)]
    /\ \E provider \in Providers :
         stream = [NoStream EXCEPT !.provider = provider, !.alphabet = "plain",
                                   !.length = 1]
    /\ frames = <<>>
    /\ others = NoOthers
    /\ IdleTools /\ IdleNorm /\ IdleEx /\ IdleRead

Next ==
    \/ TurnSnapshot
    \/ StreamOpen
    \/ StreamText
    \/ StreamToolCall
    \/ StreamToolResult
    \/ StreamEnd
    \/ TurnPersistAssistant
    \/ TurnExtract
    \/ TurnCreateFlow
    \/ TurnFinish
    \/ OtherCreateFlow
    \/ DismissFlow
    \/ Tick

Spec == Init /\ [][Next]_vars

----------------------------------------------------------------------------
(* Specification SpecCache: every sequence of get, set, delete and clear   *)
(* on one CacheService over two keys, as the clock advances                *)

InitCache ==
    /\ summary_cache = EmptyCache
    /\ now = 0
    /\ probe = NoProbe
    /\ summary = NoSummary
    /\ appends = NoAppends
    /\ adapter = NoAdapter
    /\ starts = NoStarts
    /\ recent = NoRecent
    /\ flows = <<>>
    /\ dismissed_flow_cache = EmptyCache
    /\ created_count = 0
    /\ IdleTools /\ IdleNorm /\ IdleEx /\ IdleTurn

NextCache ==
    \/ CacheGet
    \/ CacheSet
    \/ CacheDelete
    \/ CacheClear
    \/ Tick

SpecCache == InitCache /\ [][NextCache]_vars

----------------------------------------------------------------------------
(* Specification SpecSummary: calls of generate_context_summary next to    *)
(* tool calls of user u1 and the flow routes                               *)

\* what generate_context_summary cached for the initial flows
InitialSummaries ==
    [k \in {SummaryKey(c) : c \in Contexts} |->
        [value |-> ContextSummary(k[2],
                       get_all_by_context(InitialFlows, k[2], ContextOwner(k[2]),
                                          FALSE, DefaultLimit), ReadAt(0, FALSE)),
         expires_at |-> SummaryTTL]]

\* the tool calls of user u1 on flow f1 of context c1, and one on a flow
\* that does not exist
SummaryToolCalls ==
    {call \in ToolCalls :
        /\ call.name \in Executors
        /\ call.args.flow_id \in {SStr("f1"), SStr("f9")}
        /\ call.name = "update_flow_priority" => call.args.priority = SStr("high")
        /\ call.name = "update_flow_title" => call.args.new_title = TStr(Title_fl)
        /\ call.args.flow_id = SStr("f9") => call.name = "delete_flow"}

InitSummary ==
    /\ flows = InitialFlows
    /\ summary_cache \in {EmptyCache, InitialSummaries}
    /\ dismissed_flow_cache = EmptyCache
    /\ now = 0
    /\ created_count = 0
    /\ probe = NoProbe
    /\ summary = NoSummary
    /\ appends = NoAppends
    /\ adapter = NoAdapter
    /\ starts = NoStarts
    /\ recent = NoRecent
    /\ IdleTools /\ IdleNorm /\ IdleEx /\ IdleTurn

NextSummary ==
    \/ StartToolAmong(SummaryToolCalls)
    \/ ToolLookup
    \/ ToolMarkCompleteCheck
    \/ ToolMarkCompleteUpdate
    \/ ToolMutate
    \/ ToolInvalidate
    \/ UserUpdateFlow
    \/ SummaryGet
    \/ SummaryRead
    \/ SummarySet

SpecSummary == InitSummary /\ [][NextSummary]_vars

----------------------------------------------------------------------------
(* Specification SpecIsolation: calls of generate_context_summary for      *)
(* each context by its owner and by the other user, over flows that do not *)
(* change                                                                  *)

\* the flows of the context: f1 of u1 open or completed, high or medium
IsolationFlows ==
    { [InitialFlows EXCEPT !["f1"].is_completed = done, !["f1"].priority = priority] :
        done \in BOOLEAN, priority \in {"high", "medium"} }

InitIsolation ==
    /\ flows \in IsolationFlows
    /\ summary_cache = EmptyCache
    /\ dismissed_flow_cache = EmptyCache
    /\ now = 0
    /\ created_count = 0
    /\ probe = NoProbe
    /\ summary = NoSummary
    /\ appends = NoAppends
    /\ adapter = NoAdapter
    /\ starts = NoStarts
    /\ recent = NoRecent
    /\ IdleTools /\ IdleNorm /\ IdleEx /\ IdleTurn

NextIsolation ==
    \/ SummaryGetAnyone
    \/ SummaryRead
    \/ SummarySet

SpecIsolation == InitIsolation /\ [][NextIsolation]_vars

----------------------------------------------------------------------------
(* Specification SpecStream: one request to stream_chat from the ownership *)
(* check to its last frame, for every caller, conversation and provider    *)
(* stream of up to MaxChunks chunks, tool calls included                   *)

\* conversation v1 of u1 in c1 (empty, or ending with the user's message) and
\* conversation v3 of u2
StreamInitialConversations ==
    { [v \in {"v3"} |-> ConversationDoc("u2", "c2", <<>>)] }
    \cup { [v \in {"v1", "v3"} |->
              IF v = "v1" THEN ConversationDoc("u1", "c1", messages)
              ELSE ConversationDoc("u2", "c2", <<>>)] :
           messages \in {<<>>, <<Message("user", <<WordToken>>)>>} }

StreamRequests ==
    { TurnRequest(user_id, "c1", conversation_id, messages, is_context_switch) :
        user_id \in Users, conversation_id \in {"", "v1", "v3"},
        messages \in PayloadMessages, is_context_switch \in BOOLEAN }

InitStream ==
    /\ flows = InitialFlows
    /\ summary_cache = CachedSummaries
    /\ dismissed_flow_cache = EmptyCache
    /\ now = 0
    /\ created_count = 0
    /\ request \in StreamRequests
    /\ conversations \in StreamInitialConversations
    /\ turn = [NoTurn EXCEPT !.pc = "authorizing", !.user_id = request.user_id,
                             !.context_id = request.context_id]
    /\ \E provider \in Providers :
         stream = [NoStream EXCEPT !.provider = provider, !.alphabet = "full",
                                   !.length = MaxChunks]
    /\ frames = <<>>
    /\ others = NoOthers
    /\ IdleTools /\ IdleNorm /\ IdleEx /\ IdleRead

NextStream ==
    \/ TurnAuthorize
    \/ TurnResolveConversation
    \/ TurnAppendUserMessage
    \/ TurnSnapshot
    \/ StreamOpen
    \/ StreamText
    \/ StreamToolCall
    \/ ToolLookup
    \/ ToolMarkCompleteCheck
    \/ ToolMarkCompleteUpdate
    \/ ToolMutate
    \/ ToolInvalidate
    \/ StreamToolResult
    \/ StreamRaises
    \/ StreamEnd
    \/ TurnPersistAssistant
    \/ TurnExtract
    \/ TurnCreateFlow
    \/ TurnFinish

\* the client disconnects while the generator is suspended after
\* flows_extracted: the flows are created and the summary is invalidated,
\* done is not sent
DisconnectAtFlowsExtracted ==
    /\ turn.pc = "creating"
    /\ turn.i > Len(turn.extracted_flows)
    /\ turn.created_flows # <<>>
    /\ LET invalidated ==
               [PersistentState EXCEPT
                  !.summary_cache = cache_delete(summary_cache, SummaryKey(turn.context_id))]
           after == OnClose(invalidated)
       IN  /\ flows' = after.flows
           /\ conversations' = after.conversations
           /\ summary_cache' = after.summary_cache
           /\ dismissed_flow_cache' = after.dismissed_flow_cache
           /\ turn' = [turn EXCEPT !.pc = "closed", !.g_at_close = invalidated]
    /\ frames' = Append(frames, Head(FinishFrames(turn.created_flows)))
    /\ UNCHANGED <<readVars, request, stream, others, now, created_count, toolVars,
                   normVars, exVars>>

SpecStream == InitStream /\ [][NextStream]_vars

----------------------------------------------------------------------------
(* Specification SpecOrdered: the request of SpecStream with a provider    *)
(* whose events come in the order of AIService._stream_openai: text and    *)
(* failures while the provider stream is read, tool calls after it ended   *)

\* Mutant: tool calls are passed on as they arrive.
ProviderEventAllowed_unbuffered(type, tools_executed) == TRUE

\* _stream_openai yields text inside the loop over the provider stream and
\* the buffered tool calls after the loop; the provider raises in the call
\* or in the loop
ProviderEventAllowed(type, tools_executed) ==
    type = "tool_call" \/ ~tools_executed

OrderedText == ProviderEventAllowed("text", turn.tools_executed) /\ StreamText

OrderedRaises == ProviderEventAllowed("raise", turn.tools_executed) /\ StreamRaises

OrderedToolCall == ProviderEventAllowed("tool_call", turn.tools_executed) /\ StreamToolCall

NextOrdered ==
    \/ TurnAuthorize
    \/ TurnResolveConversation
    \/ TurnAppendUserMessage
    \/ TurnSnapshot
    \/ StreamOpen
    \/ OrderedText
    \/ OrderedToolCall
    \/ ToolLookup
    \/ ToolMarkCompleteCheck
    \/ ToolMarkCompleteUpdate
    \/ ToolMutate
    \/ ToolInvalidate
    \/ StreamToolResult
    \/ OrderedRaises
    \/ StreamEnd
    \/ TurnPersistAssistant
    \/ TurnExtract
    \/ TurnCreateFlow
    \/ TurnFinish

SpecOrdered == InitStream /\ [][NextOrdered]_vars

\* A chat request whose client may disconnect, in a context where the
\* candidates of the extraction are new.
DisconnectInitialFlows == [TurnInitialFlows EXCEPT !["f1"].is_completed = FALSE]

InitDisconnect ==
    /\ flows = DisconnectInitialFlows
    /\ summary_cache = CachedSummaries
    /\ dismissed_flow_cache = EmptyCache
    /\ now = 0
    /\ created_count = 0
    /\ request \in StreamRequests
    /\ conversations \in StreamInitialConversations
    /\ turn = [NoTurn EXCEPT !.pc = "authorizing", !.user_id = request.user_id,
                             !.context_id = request.context_id]
    /\ \E provider \in Providers :
         stream = [NoStream EXCEPT !.provider = provider, !.alphabet = "full",
                                   !.length = MaxChunks]
    /\ frames = <<>>
    /\ others = NoOthers
    /\ IdleTools /\ IdleNorm /\ IdleEx /\ IdleRead

NextDisconnect ==
    \/ NextStream
    \/ Disconnect
    \/ DisconnectAtFlowsExtracted

SpecDisconnect == InitDisconnect /\ [][NextDisconnect]_vars

\* Concurrent append_message calls on the conversations collection.
InitConv ==
    /\ conversations \in StreamInitialConversations
    /\ appends = [NoAppends EXCEPT !.g_initial = conversations]
    /\ probe = NoProbe
    /\ summary = NoSummary
    /\ adapter = NoAdapter
    /\ starts = NoStarts
    /\ recent = NoRecent
    /\ turn = NoTurn
    /\ others = NoOthers
    /\ request = NoRequest
    /\ stream = NoStream
    /\ frames = <<>>
    /\ IdleStore /\ IdleTools /\ IdleNorm /\ IdleEx

NextConv ==
    \/ AppendStart
    \/ AppendUpdate
    \/ Tick

SpecConv == InitConv /\ [][NextConv]_vars

\* One operation of AIService against the provider.
InitAdapter ==
    /\ adapter = NoAdapter
    /\ starts = NoStarts
    /\ recent = NoRecent
    /\ probe = NoProbe
    /\ summary = NoSummary
    /\ appends = NoAppends
    /\ IdleStore /\ IdleTools /\ IdleNorm /\ IdleEx /\ IdleTurn

NextAdapter ==
    \/ AdapterStart
    \/ AdapterCall
    \/ AdapterChunk
    \/ AdapterStreamFails
    \/ AdapterStreamEnds

SpecAdapter == InitAdapter /\ [][NextAdapter]_vars

----------------------------------------------------------------------------
(* Specification SpecStart: two requests of u1 to stream_chat in context   *)
(* c1, from the conversation lookup to the append of the user message,     *)
(* interleaved at their awaits                                             *)

StartTime == 2

InitStart ==
    /\ conversations \in StartInitialConversations
    /\ starts \in [StartIds -> { [NoStart EXCEPT !.pc = "start", !.request = r] :
                                  r \in StartRequests }]
    /\ now = StartTime
    /\ flows = [f \in {} |-> NoDoc]
    /\ summary_cache = EmptyCache
    /\ dismissed_flow_cache = EmptyCache
    /\ created_count = 0
    /\ probe = NoProbe
    /\ summary = NoSummary
    /\ appends = NoAppends
    /\ adapter = NoAdapter
    /\ recent = NoRecent
    /\ turn = NoTurn
    /\ others = NoOthers
    /\ request = NoRequest
    /\ stream = NoStream
    /\ frames = <<>>
    /\ IdleTools /\ IdleNorm /\ IdleEx

NextStart ==
    \/ \E i \in StartIds : StartById(i)
    \/ \E i \in StartIds : StartByContext(i)
    \/ \E i \in StartIds : StartCreate(i)
    \/ \E i \in StartIds : StartAppend(i)

SpecStart == InitStart /\ [][NextStart]_vars

----------------------------------------------------------------------------
(* Specification SpecRecent: get_recent_messages for every caller,         *)
(* conversation id, limit and bounded log                                  *)

InitRecent ==
    /\ conversations \in RecentConversations
    /\ recent \in { [NoRecent EXCEPT !.pc = "input", !.conversation_id = v,
                                     !.user_id = u, !.limit = k] :
                      v \in {"v1", "v3", "v9"}, u \in Users, k \in RecentLimits }
    /\ probe = NoProbe
    /\ summary = NoSummary
    /\ appends = NoAppends
    /\ adapter = NoAdapter
    /\ starts = NoStarts
    /\ turn = NoTurn
    /\ others = NoOthers
    /\ request = NoRequest
    /\ stream = NoStream
    /\ frames = <<>>
    /\ IdleStore /\ IdleTools /\ IdleNorm /\ IdleEx

NextRecent == RecentCall

SpecRecent == InitRecent /\ [][NextRecent]_vars

----------------------------------------------------------------------------
(* Claims about the extraction pass of stream_chat (Spec)                  *)

C2_NeverPersistedWhileDismissed == ~turn.g_dismissed_live

\* C3: when the pass persists a candidate, no non-completed task of the
\* context has the same normalized title at that moment, whatever other
\* requests created while the turn was streaming.
C3_SkippedWhenVisibleDuplicate == ~turn.g_visible_dup

----------------------------------------------------------------------------
(* Claims about the frames and steps of a turn (SpecStream; C18 under Spec, *)
(* where the turn creates flows)                                           *)

FrameTypes == { frames[n].type : n \in DOMAIN frames }

\* C11: execute_tool never raises: an unknown tool name and an exception
\* inside an executor both give a result with success = false; and a turn in
\* which a tool failed goes on with the stream, so it fails only on a
\* provider failure or from the persisting step on.
C11_ToolErrorsNeverAbort ==
    /\ tool.pc = "done" =>
         /\ tool.result # Raised
         /\ tool.name \notin Executors => ~tool.result.success
    /\ (turn.pc = "failed" /\ stream.g_tool_failed) =>
         (stream.g_provider_failed \/ stream.g_persisting)

\* a turn reached done after delete_flow was called with arguments that are
\* a JSON array: the executor's exception came back as a failure result and
\* was shown as a token
C11_Witness ==
    /\ turn.pc = "done"
    /\ tool.name = "delete_flow"
    /\ tool.result = Fail("Tool execution failed")
    /\ stream.g_tool_failed
    /\ stream.g_persisting
    /\ \E n \in DOMAIN frames : frames[n] = TokenFrame("Tool execution failed")
    /\ "tool_executed" \in FrameTypes

NotOwnerStopsAtAuthorizing ==
    (ContextOwner(request.context_id) # request.user_id /\ turn.pc # "authorizing") =>
        turn.pc = "http_error"

NothingBeforeAuthorized ==
    turn.pc \in {"authorizing", "http_error"} =>
        /\ frames = <<>>
        /\ stream.calls = 0 /\ stream.chunks = 0
        /\ NewConversationId \notin DOMAIN conversations
        /\ ~turn.user_message_added
        /\ tool_calls = 0

\* C16: a caller who does not own context_id gets the HTTP error and nothing
\* else: up to and at the error no SSE frame exists, no conversation is
\* created, no message is appended, the provider is not called and no tool
\* runs.
C16_NotOwnerFailsBeforeAnything ==
    /\ [](NotOwnerStopsAtAuthorizing /\ NothingBeforeAuthorized)
    /\ [][turn.pc \in {"authorizing", "http_error"} =>
             UNCHANGED <<conversations, frames, stream, flows, tool>>]_vars

\* user u2 asked for a turn in context c1 of user u1, naming a conversation
\* of their own
C16_Witness ==
    /\ turn.pc = "http_error"
    /\ request.user_id = "u2" /\ request.context_id = "c1"
    /\ request.conversation_id = "v3" /\ request.latest_user = <<WordToken>>
    /\ frames = <<>>

ErrorFrames == { n \in DOMAIN frames : frames[n].type = "error" }

\* C17: a turn that ended without a provider-level failure sent done and no
\* error frame; a turn in which the provider failed sent exactly one error
\* frame and no done. This for every provider output, a reply longer than
\* 10,000 characters included, and for AIService called as line 279 calls it.
C17_DoneUnlessProviderFailure ==
    turn.pc \in {"done", "failed"} =>
        IF stream.g_provider_failed
        THEN Cardinality(ErrorFrames) = 1 /\ "done" \notin FrameTypes
        ELSE "done" \in FrameTypes /\ ErrorFrames = {}

\* the frames a finished turn ends with, given whether it created a flow
SuccessTail(created) ==
    <<CompletionFrame, PlainFrame("conversation_updated")>>
    \o (IF created THEN <<PlainFrame("flows_extracted")>> ELSE <<>>)
    \o <<PlainFrame("done")>>

C19_UpdatedOnlyAfterReplyAppended ==
    "conversation_updated" \in FrameTypes =>
        /\ stream.g_appended
        /\ \E n \in DOMAIN conversations[turn.conversation_id].messages :
             conversations[turn.conversation_id].messages[n] =
                 Message("assistant", stream.full_response)

\* C20: in a turn in which a tool call was received or no new user message
\* was appended, the extraction provider is not called and the turn creates
\* no flow: nothing is extracted, nothing inserted, no flows_extracted frame.
C20_ExtractionSkipped ==
    ((turn.tools_executed \/ ~turn.user_message_added)
       /\ turn.pc \in {"creating", "done"}) =>
        /\ ~turn.g_extraction_called
        /\ turn.extracted_flows = <<>> /\ turn.created_flows = <<>>
        /\ turn.g_inserted = {} /\ created_count = 0
        /\ "flows_extracted" \notin FrameTypes

\* a context switch repeated the last user message: nothing was appended,
\* no tool ran, and the turn reached done without extraction
C20_Witness ==
    /\ turn.pc = "done"
    /\ request.is_context_switch /\ request.latest_user = <<WordToken>>
    /\ ~turn.user_message_added /\ ~turn.tools_executed
    /\ ~turn.g_extraction_called
    /\ frames[Len(frames)] = PlainFrame("done")

\* the assistant message of the turn is the last message of its conversation
ReplyIsLast ==
    LET messages == conversations[turn.conversation_id].messages
    IN  /\ messages # <<>>
        /\ messages[Len(messages)] = Message("assistant", stream.full_response)

\* C22: when the extraction call failed with an AI service error (rate
\* limit, timeout, upstream), the turn is not failed and sent no error frame,
\* extracted and created nothing, the assistant message appended before
\* extraction is still the last of the conversation, and a finished turn
\* ends with done.
C22_ExtractionFailureIsNotFatal ==
    turn.g_extraction_exc \in AIServiceErrors =>
        /\ turn.pc \in {"creating", "done"}
        /\ ErrorFrames = {}
        /\ turn.extracted_flows = <<>> /\ turn.created_flows = <<>>
        /\ turn.g_inserted = {}
        /\ "flows_extracted" \notin FrameTypes
        /\ stream.g_appended => ReplyIsLast
        /\ turn.pc = "done" => frames[Len(frames)] = PlainFrame("done")

\* the extraction of a turn was rate limited; the turn reached done with its
\* reply in the conversation
C22_Witness ==
    /\ turn.g_extraction_exc = "AIRateLimitError"
    /\ turn.pc = "done"
    /\ stream.g_appended /\ ReplyIsLast
    /\ frames[Len(frames)] = PlainFrame("done")
    /\ ErrorFrames = {}

C21_ExtractionTextIsLatestExchange ==
    turn.g_extraction_called =>
        /\ turn.conversation_text =
               ConversationText(request.latest_user, stream.full_response)
        /\ \E n \in DOMAIN conversations[turn.conversation_id].messages :
             conversations[turn.conversation_id].messages[n] =
                 Message("user", turn.conversation_text.user)

----------------------------------------------------------------------------
(* Claims about ConversationRepository.append_message (SpecConv)            *)

Returned(conversation_id) ==
    { n \in 1..MaxAppends : /\ appends.calls[n].pc = "returned"
                            /\ appends.calls[n].conversation_id = conversation_id }

Occurrences(log, message) == Cardinality({ i \in DOMAIN log : log[i] = message })

\* C24: whatever the interleaving of the append_message calls on a
\* conversation, the log it had before them is an unchanged prefix of its
\* log, and behind it every message is there once for each call that
\* appended it and returned: no append overwrites or drops another.
C24_ConcurrentAppendsAllKept ==
    \A v \in DOMAIN conversations :
        LET log == conversations[v].messages
            before == appends.g_initial[v].messages
            tail == SubSeq(log, Len(before) + 1, Len(log))
        IN  /\ Len(before) <= Len(log)
            /\ SubSeq(log, 1, Len(before)) = before
            /\ Len(tail) = Cardinality(Returned(v))
            /\ \A message \in {UserHi, AssistantHiHi} :
                  Occurrences(tail, message) =
                      Cardinality({ n \in Returned(v) :
                                      appends.calls[n].message = message })

\* two calls of the owner on a conversation with a message, both pending at
\* once, the second one started updating first
C24_Witness ==
    /\ "v1" \in DOMAIN conversations
    /\ appends.g_initial["v1"].messages = <<UserHi>>
    /\ appends.calls[1].pc = "returned" /\ appends.calls[2].pc = "returned"
    /\ appends.calls[1].conversation_id = "v1" /\ appends.calls[2].conversation_id = "v1"
    /\ appends.calls[2].g_concurrent
    /\ appends.calls[1].message = UserHi /\ appends.calls[2].message = AssistantHiHi
    /\ conversations["v1"].messages = <<UserHi, AssistantHiHi, UserHi>>

AppendSucceeds(call) ==
    /\ call.conversation_id \in ValidConversationIds
    /\ call.conversation_id \in DOMAIN conversations
    /\ conversations[call.conversation_id].user_id = call.user_id

\* a call that ends returns iff the id is valid and names a conversation of
\* the user
EndsAsItShould ==
    \A n \in 1..MaxAppends :
        /\ appends.calls[n].pc = "returned" => AppendSucceeds(appends.calls[n])
        /\ appends.calls[n].pc = "raised" => ~AppendSucceeds(appends.calls[n])

\* the step in which a call ends: raising changes no conversation, returning
\* appends the message to the one conversation, stamps it and returns it; and
\* nothing else changes a conversation
AllOrNothing ==
    /\ \A n \in 1..MaxAppends :
         LET call == appends.calls[n]
             v == call.conversation_id
         IN  /\ (call.pc # "raised" /\ appends.calls[n].pc' = "raised")
                    => conversations' = conversations
             /\ (call.pc # "returned" /\ appends.calls[n].pc' = "returned")
                    => /\ conversations' =
                              [conversations EXCEPT ![v].messages = Append(@, call.message),
                                                    ![v].updated_at = now]
                       /\ appends.calls[n].result' = conversations'[v]
    /\ conversations' # conversations
           => \E n \in 1..MaxAppends : /\ appends.calls[n].pc = "update"
                                        /\ appends.calls[n].pc' = "returned"

\* C25: append_message either appends the message and returns the updated
\* conversation, or raises ValueError and leaves every conversation (messages
\* and updated_at) as it was; it raises for an invalid id, a missing
\* conversation and a conversation of another user, and the ownership check
\* and the append are one step.
C25_AppendAllOrNothing == []EndsAsItShould /\ [][AllOrNothing]_vars

\* one call raised on another user's conversation, which kept its log and its
\* stamp, and one call of the owner returned the conversation with the message
C25_Witness ==
    /\ appends.calls[1].pc = "raised" /\ appends.calls[1].conversation_id = "v3"
    /\ appends.calls[1].user_id = "u1" /\ "v3" \in DOMAIN conversations
    /\ conversations["v3"] = appends.g_initial["v3"]
    /\ "v1" \in DOMAIN conversations
    /\ appends.calls[2].pc = "returned" /\ appends.calls[2].conversation_id = "v1"
    /\ appends.calls[2].result.messages =
           Append(appends.g_initial["v1"].messages, appends.calls[2].message)
    /\ appends.calls[2].result.updated_at = 1

----------------------------------------------------------------------------
(* Claims about the tool calls of a turn (SpecStream)                       *)

ToolExecutedPositions == { n \in DOMAIN frames : frames[n].type = "tool_executed" }

\* the tool_call events whose execute_tool has returned
ToolCallsHandled == tool_calls - (IF turn.pc = "tool" THEN 1 ELSE 0)

\* the number of tool_executed frames among the first n frames
ToolExecutedUpTo(n) == Cardinality({ m \in ToolExecutedPositions : m <= n })

\* C31: for every tool_call event stream_chat sends exactly one tool_executed
\* frame and directly after it one assistant_token frame, not complete, whose
\* token is the message of the tool's result (its error on failure); the
\* token is appended to full_response, and a persisted reply is full_response.
C31_ToolResultFramedAndVisible ==
    /\ Cardinality(ToolExecutedPositions) = ToolCallsHandled
    /\ Len(stream.g_results) = ToolCallsHandled
    /\ \A n \in ToolExecutedPositions :
         /\ n + 1 <= Len(frames)
         /\ frames[n + 1] =
                TokenFrame(ResultMessage(stream.g_results[ToolExecutedUpTo(n)]))
    /\ \A k \in DOMAIN stream.g_results :
         \E i \in DOMAIN stream.full_response :
             stream.full_response[i] = ResultMessage(stream.g_results[k])
    /\ stream.g_appended => ReplyIsLast

\* two tool calls, one succeeded and one failed, and the reply with both
\* messages is persisted
C31_Witness ==
    /\ Len(stream.g_results) = 2
    /\ stream.g_results[1].success /\ ~stream.g_results[2].success
    /\ stream.g_appended /\ ReplyIsLast
    /\ turn.pc = "done"

\* C32: when the arguments of a tool call are not valid JSON, the tool is
\* called with an empty object, tool_executed is sent and the turn goes on
\* with the stream; no error frame comes of it.
InvalidJsonToolStep ==
    (turn.pc = "tool" /\ stream.g_json = "invalid")
        => /\ tool.args = IdleTool.args
           /\ turn.pc' \in {"tool", "chunks"}
           /\ turn.pc' = "chunks"
                 => /\ Len(frames') = Len(frames) + 2
                    /\ frames'[Len(frames) + 1].type = "tool_executed"
           /\ \A n \in DOMAIN frames' : frames'[n].type # "error"

C32_InvalidJsonArgumentsBecomeEmpty == [][InvalidJsonToolStep]_vars

\* the turn ended with done after a tool call with unparseable arguments
C32_Witness ==
    /\ stream.g_json = "invalid"
    /\ "tool_executed" \in FrameTypes
    /\ turn.pc = "done"

----------------------------------------------------------------------------
(* Claims about conversation resolution and the append of the user message  *)
(* (SpecStart)                                                              *)

\* the conversations of a user in a context
ConversationsOf(convs, user_id, context_id) ==
    { v \in DOMAIN convs : convs[v].user_id = user_id /\ convs[v].context_id = context_id }

\* the messages end with a user message of this content
EndsWithUser(messages, content) ==
    /\ messages # <<>>
    /\ messages[Len(messages)].role = "user"
    /\ messages[Len(messages)].content = content

\* the step of request i that appends the user message or skips it, taken
\* when nothing was written to the conversation since the request fetched it
AppendStepOf(i) ==
    LET req == starts[i].request
        v == starts[i].conversation.id
        stored == conversations[v].messages
        flagged_duplicate == req.is_context_switch /\ EndsWithUser(stored, req.latest_user)
    IN  (/\ starts[i].pc = "append" /\ starts'[i].pc = "done"
         /\ req.latest_user # <<>>
         /\ starts[i].conversation.messages = stored)
            => IF flagged_duplicate
               THEN /\ conversations' = conversations
                    /\ ~starts'[i].user_message_added
               ELSE /\ conversations'[v].messages
                          = Append(stored, Message("user", req.latest_user))
                    /\ \A w \in DOMAIN conversations \ {v} :
                          conversations'[w] = conversations[w]
                    /\ DOMAIN conversations' = DOMAIN conversations
                    /\ starts'[i].user_message_added

\* C33: stream_chat appends the latest user message unless the request is
\* flagged is_context_switch and the last stored message is a user message
\* with the same content; then nothing is appended and user_message_added
\* stays false; in every other case (flag unset, other content, last message
\* not the user's, empty log) the message is appended exactly once.
C33_UserMessageAppendedUnlessDuplicate ==
    [][\A i \in StartIds : AppendStepOf(i)]_vars

\* one request skipped a flagged duplicate, the other appended although it
\* was flagged, the last stored message being the assistant's
C33_Witness ==
    /\ starts["a"].pc = "done" /\ starts["b"].pc = "done"
    /\ starts["a"].request.is_context_switch
    /\ EndsWithUser(starts["a"].g_stored, starts["a"].request.latest_user)
    /\ starts["a"].conversation.messages = starts["a"].g_stored
    /\ ~starts["a"].user_message_added
    /\ starts["b"].request.is_context_switch
    /\ starts["b"].g_stored # <<>>
    /\ starts["b"].g_stored[Len(starts["b"].g_stored)].role = "assistant"
    /\ starts["b"].user_message_added

\* C34: when the same opening user message is sent twice with
\* is_context_switch set and the two requests run concurrently on the same
\* conversation, the log ends with that user message stored only once.
C34_ConcurrentDuplicateStoredOnce ==
    LET a == starts["a"]
        b == starts["b"]
        messages == conversations[a.conversation.id].messages
        message == Message("user", a.request.latest_user)
    IN  (/\ a.pc = "done" /\ b.pc = "done"
         /\ a.conversation.id = b.conversation.id
         /\ a.request.is_context_switch /\ b.request.is_context_switch
         /\ a.request.latest_user # <<>>
         /\ a.request.latest_user = b.request.latest_user)
            => ~(/\ Len(messages) >= 2
                 /\ messages[Len(messages)] = message
                 /\ messages[Len(messages) - 1] = message)

\* the steps of request i that settle its conversation
ResolutionStepOf(i) ==
    LET req == starts[i].request
        mine == ConversationsOf(conversations, req.user_id, req.context_id)
        found == /\ req.conversation_id \in DOMAIN conversations
                 /\ conversations[req.conversation_id].user_id = req.user_id
        by_id == starts[i].pc = "start" /\ req.conversation_id # ""
        by_context == starts[i].pc = "by_context"
                         \/ (starts[i].pc = "start" /\ req.conversation_id = "")
    IN  /\ (by_id /\ starts'[i] # starts[i])
            => IF found
               THEN /\ starts'[i].pc = "append"
                    /\ starts'[i].conversation.id = req.conversation_id
               ELSE starts'[i].pc = "by_context"
        /\ (by_context /\ starts'[i] # starts[i])
            => IF mine # {}
               THEN /\ starts'[i].pc = "append"
                    /\ starts'[i].conversation.id \in mine
                    /\ \A w \in mine : conversations[w].updated_at
                          <= conversations[starts'[i].conversation.id].updated_at
               ELSE starts'[i].pc = "create"
        /\ (starts[i].pc \in {"start", "by_context"} /\ starts'[i] # starts[i])
            => conversations' = conversations
        /\ (starts[i].pc = "create" /\ starts'[i] # starts[i])
            => /\ starts'[i].pc = "append"
               /\ starts'[i].conversation.id \notin DOMAIN conversations
               /\ DOMAIN conversations' = DOMAIN conversations
                                             \cup {starts'[i].conversation.id}
               /\ conversations'[starts'[i].conversation.id].user_id = req.user_id
               /\ conversations'[starts'[i].conversation.id].context_id = req.context_id
               /\ conversations'[starts'[i].conversation.id].messages = <<>>
        /\ starts'[i].pc = "create" => starts[i].pc = "create" \/ (by_context /\ mine = {})

\* C35: a supplied conversation_id that is found and owned by the caller is
\* used; one that is not found or not owned is ignored; then, and when no id
\* is supplied, the most recently updated conversation of the caller in
\* context_id is reused, and a conversation is created only when the lookup
\* finds none of the caller in that context.
C35_ConversationResolutionOrder ==
    [][\A i \in StartIds : ResolutionStepOf(i)]_vars

\* a request naming another user's conversation went on with the one of the
\* caller updated last, an older one existing; the other request named its
\* own conversation and got it
C35_Witness ==
    /\ starts["a"].pc = "done" /\ starts["b"].pc = "done"
    /\ starts["a"].request.conversation_id = "v3"
    /\ starts["a"].conversation.id = "v4"
    /\ "v1" \in DOMAIN conversations
    /\ starts["b"].request.conversation_id = "v1"
    /\ starts["b"].conversation.id = "v1"

\* C36: when two first chat turns of the same user in the same context (no
\* conversation yet, no conversation_id supplied) run concurrently, at most
\* one conversation exists for that user and context afterwards and both
\* turns append to it.
C36_LazyCreationOnce ==
    LET a == starts["a"]
        b == starts["b"]
    IN  (/\ a.pc = "done" /\ b.pc = "done"
         /\ a.request.conversation_id = "" /\ b.request.conversation_id = ""
         /\ ConversationsOf(conversations, "u1", "c1") \cap {"v1", "v4"} = {})
            => /\ Cardinality(ConversationsOf(conversations, "u1", "c1")) <= 1
               /\ a.conversation.id = b.conversation.id

\* C39: every message appended by a chat turn is in a conversation whose
\* context_id is the context_id of the request, also when the request names
\* a conversation the caller owns in another context.
C39_MessagesStayInRequestContext ==
    \A i \in StartIds :
        (starts[i].pc = "done" /\ starts[i].user_message_added)
            => conversations[starts[i].conversation.id].context_id
                   = starts[i].request.context_id

----------------------------------------------------------------------------
(* Claims about get_recent_messages (SpecRecent)                            *)

Min(a, b) == IF a < b THEN a ELSE b

\* C37: get_recent_messages returns at most limit messages for every limit:
\* the last min(limit, n) messages of the conversation in chronological
\* order, and the empty list when the conversation is missing or owned by
\* another user.
C37_RecentMessagesAtMostLimit ==
    (recent.pc = "done" /\ recent.limit >= 0)
        => LET v == recent.conversation_id
               owned == v \in DOMAIN conversations
                           /\ conversations[v].user_id = recent.user_id
               n == IF owned THEN Len(conversations[v].messages) ELSE 0
               k == Min(recent.limit, n)
           IN  /\ Len(recent.result) <= recent.limit
               /\ IF owned
                  THEN recent.result = SubSeq(conversations[v].messages, n - k + 1, n)
                  ELSE recent.result = <<>>

----------------------------------------------------------------------------
(* Claims about the phases of a turn (SpecStream)                           *)

\* the phases of stream_chat: 1 Authorizing, 2 ConversationResolved (the
\* conversation is looked up or created, the user message appended, the flows
\* read), 3 Streaming, 4 Persisting, 5 Extracting, 6 Done, 7 Errored
Phase(pc) ==
    CASE pc = "authorizing" -> 1
      [] pc \in {"resolving", "appending", "snapshot"} -> 2
      [] pc \in {"streaming", "chunks", "tool"} -> 3
      [] pc = "persisting" -> 4
      [] pc \in {"extracting", "creating"} -> 5
      [] pc = "done" -> 6
      [] OTHER -> 7

\* a step stays in its phase, enters the next one or ends the turn in
\* Errored; Done and Errored are left by no step, and no frame is sent in them
PhaseStep ==
    LET p == Phase(turn.pc)
        q == Phase(turn.pc')
    IN  /\ q \in {p, p + 1, 7}
        /\ p >= 6 => (q = p /\ frames' = frames)

\* done and error are last frames, Done has sent done, an error frame means
\* Errored, and an HTTP error comes before any frame
TerminalFrames ==
    /\ \A n \in DOMAIN frames : frames[n].type \in {"done", "error"} => n = Len(frames)
    /\ turn.pc = "done" <=> (frames # <<>> /\ frames[Len(frames)].type = "done")
    /\ turn.pc = "failed" <=> (frames # <<>> /\ frames[Len(frames)].type = "error")
    /\ turn.pc = "http_error" => frames = <<>>

\* a turn stops only in Done or Errored: anywhere else the step of its
\* position can be taken (while candidates are left in step 3, that step is
\* TurnCreateFlow, which has no other condition)
CanStep ==
    CASE turn.pc = "authorizing" -> ENABLED TurnAuthorize
      [] turn.pc = "resolving" -> ENABLED TurnResolveConversation
      [] turn.pc = "appending" -> ENABLED TurnAppendUserMessage
      [] turn.pc = "snapshot" -> ENABLED TurnSnapshot
      [] turn.pc = "streaming" -> ENABLED StreamOpen
      [] turn.pc = "chunks" -> ENABLED StreamEnd
      [] turn.pc = "tool" ->
             ENABLED (ToolLookup \/ ToolMarkCompleteCheck \/ ToolMarkCompleteUpdate
                        \/ ToolMutate \/ ToolInvalidate \/ StreamToolResult)
      [] turn.pc = "persisting" -> ENABLED TurnPersistAssistant
      [] turn.pc = "extracting" -> ENABLED TurnExtract
      [] turn.pc = "creating" ->
             turn.i > Len(turn.extracted_flows) => ENABLED TurnFinish
      [] OTHER -> turn.pc \in {"done", "failed", "http_error"}

\* every step moves the turn on: to another position, to the next chunk of
\* the provider stream, to the next step of the tool or to the next candidate
StepAdvances ==
    \/ turn.pc' # turn.pc
    \/ stream.chunks' > stream.chunks
    \/ tool.pc' # tool.pc
    \/ turn.i' > turn.i

\* C29: a chat turn passes through Authorizing, ConversationResolved,
\* Streaming, Persisting and Extracting in this order and never goes back; it
\* ends in exactly one of Done (done sent) and Errored (an HTTP error before
\* the stream, or an error frame), never sends both done and error, and sends
\* no frame after the terminal one.
C29_PhasesInOrderOneTerminal ==
    /\ [](TerminalFrames /\ CanStep)
    /\ [][PhaseStep /\ StepAdvances]_vars

\* a turn that went through every phase: reply persisted, extraction called,
\* done sent
C29_Witness ==
    /\ turn.pc = "done"
    /\ stream.g_appended
    /\ turn.g_extraction_called
    /\ frames[Len(frames)].type = "done"

----------------------------------------------------------------------------
(* Claims about a client that disconnects (SpecDisconnect)                  *)

UserMessageKept ==
    \E n \in DOMAIN conversations[turn.conversation_id].messages :
        conversations[turn.conversation_id].messages[n] =
            Message("user", request.latest_user)

\* C28: when the client has disconnected at a frame boundary, everything the
\* turn had done by then is still there and nothing was undone: the
\* collections and the caches are as they were at the disconnect, the user
\* message appended before the stream and the reply appended after it are in
\* the conversation, and the flows the turn inserted exist.
C28_DisconnectKeepsSideEffects ==
    turn.pc = "closed"
        => /\ PersistentState = turn.g_at_close
           /\ turn.user_message_added => UserMessageKept
           /\ stream.g_appended => ReplyIsLast
           /\ \A id \in turn.g_inserted : id \in DOMAIN flows

\* the client left after flows_extracted: the user message, the reply and
\* the created flows are there, and no done frame was sent
C28_Witness ==
    /\ turn.pc = "closed"
    /\ turn.user_message_added /\ UserMessageKept
    /\ stream.g_appended
    /\ turn.g_inserted # {}
    /\ frames[Len(frames)].type = "flows_extracted"

\* the client left after the frames of a tool call: the flow stays changed
DisconnectAfterTool ==
    /\ turn.pc = "closed"
    /\ tool.g_mutated
    /\ Len(frames) >= 2
    /\ frames[Len(frames) - 1].type = "tool_executed"

----------------------------------------------------------------------------
(* Claims about a provider stream that fails (SpecOrdered)                  *)

\* C38: when the provider stream fails, before the first token or after some
\* tokens, no tool is executed, no assistant message is appended, no
\* conversation_updated is sent, extraction is not run and no task is
\* created in that turn; the user message appended before streaming stays in
\* the conversation; the error frame is the last frame.
C38_ProviderFailureEndsTurnClean ==
    stream.g_provider_failed
        => /\ turn.pc = "failed"
           /\ ~turn.tools_executed /\ tool_calls = 0 /\ tool = IdleTool
           /\ ~stream.g_persisting /\ ~stream.g_appended
           /\ "conversation_updated" \notin FrameTypes
           /\ "tool_executed" \notin FrameTypes
           /\ ~turn.g_extraction_called
           /\ turn.created_flows = <<>> /\ turn.g_inserted = {} /\ created_count = 0
           /\ turn.user_message_added
                => LET messages == conversations[turn.conversation_id].messages
                   IN  messages[Len(messages)] = Message("user", request.latest_user)
           /\ \A n \in DOMAIN conversations[turn.conversation_id].messages :
                  StripIsEmpty(stream.full_response) \/
                  conversations[turn.conversation_id].messages[n]
                      # Message("assistant", stream.full_response)
           /\ frames[Len(frames)].type = "error"
           /\ \A n \in 1..(Len(frames) - 1) : frames[n].type = "assistant_token"

\* the provider failed after a token had been forwarded, the user message
\* being in the conversation
C38_Witness ==
    /\ stream.g_provider_failed
    /\ Len(frames) = 2
    /\ frames[1] = TokenFrame(WordToken)
    /\ turn.user_message_added
    /\ UserMessageKept

----------------------------------------------------------------------------
(* Claims about AIService and the provider (SpecAdapter)                    *)

\* C26: no operation issues a second provider call after a failed one: in
\* streaming, in extraction and in summary generation every provider call
\* before the last one of the operation succeeded.
C26_NoCallAfterAFailedOne ==
    \A i \in 1..(Len(adapter.calls) - 1) : adapter.calls[i] = "ok"

\* C27: a provider failure during streaming is raised as one of three kinds
\* of error, one for each of rate limit, timeout and upstream error, so that
\* the class of the error raised tells which failure it was, for both
\* providers, and the stream has ended.
C27_StreamFailureKindsDistinct ==
    (adapter.op = "stream" /\ adapter.pc = "raised")
        => \A failure \in ProviderFailures :
               StreamError(adapter.provider, failure).class = adapter.raised.class
                   => failure = adapter.g_failure

ToolCallPositions == { i \in DOMAIN adapter.events : adapter.events[i].type = "tool_call" }

\* the indexes of the fragments, in the order of their first fragment
RECURSIVE IndexesOf(_)
IndexesOf(fragments) ==
    IF fragments = <<>> THEN <<>>
    ELSE LET before == IndexesOf(SubSeq(fragments, 1, Len(fragments) - 1))
             index == fragments[Len(fragments)].index
         IN  IF \E k \in DOMAIN before : before[k] = index THEN before
             ELSE Append(before, index)

\* the argument fragments received for an index, concatenated as they arrived
RECURSIVE ArgumentsOf(_, _)
ArgumentsOf(fragments, index) ==
    IF fragments = <<>> THEN <<>>
    ELSE (IF Head(fragments).index = index THEN Head(fragments).arguments ELSE <<>>)
             \o ArgumentsOf(Tail(fragments), index)

\* C30: the OpenAI adapter yields no tool_call event while the provider
\* stream is read; once it has ended, the tool_call events follow every text
\* event, there is exactly one per distinct fragment index (in the order of
\* their first fragments), and its arguments are all argument fragments of
\* that index concatenated in arrival order; the Anthropic adapter never
\* yields a tool_call event.
C30_ToolCallsBufferedUntilStreamEnd ==
    LET indexes == IndexesOf(adapter.g_fragments)
        texts == Len(adapter.events) - Len(indexes)
    IN  /\ adapter.pc # "returned" => ToolCallPositions = {}
        /\ adapter.provider = "anthropic" => ToolCallPositions = {}
        /\ (adapter.pc = "returned" /\ adapter.op = "stream" /\ adapter.provider = "openai")
              => /\ ToolCallPositions = (texts + 1)..Len(adapter.events)
                 /\ \A k \in DOMAIN indexes :
                       adapter.events[texts + k].arguments =
                           ArgumentsOf(adapter.g_fragments, indexes[k])

\* a stream with a text and fragments of two indexes, one of them in two parts
C30_Witness ==
    /\ adapter.pc = "returned" /\ adapter.provider = "openai"
    /\ Len(adapter.g_fragments) = 3
    /\ adapter.events = <<TextEvent("t"),
                          ToolCallEvent(Fragment(0, TRUE, <<"a", "b">>)),
                          ToolCallEvent(Fragment(1, TRUE, <<>>))>>

----------------------------------------------------------------------------
(* Claims about the summary cache and the operations that change flows     *)
(* (SpecSummary)                                                           *)

\* the step in which an executor returns success for a flow it found
ToolReturnsSuccess ==
    /\ tool.pc # "done" /\ tool'.pc = "done"
    /\ tool'.name \in Executors /\ tool'.result.success
    /\ tool'.flow # NoDoc

\* C12: when a mutating tool (complete, delete, priority, rename) returns
\* success, it has changed an existing flow and no entry is left under
\* summary:{context_id} of that flow's context; a summary read that finds
\* the cache as the tool left it misses, and the summary it then computes
\* is the one of the flows as they are at its read.
C12_ToolSuccessInvalidatesSummary ==
    [][ /\ ToolReturnsSuccess =>
             /\ tool'.g_mutated
             /\ SummaryKey(tool'.flow.context_id) \notin DOMAIN summary_cache'
        /\ (SummaryGet /\ summary'.g_after_call > 0
               /\ SummaryKey(summary'.context_id) \notin DOMAIN summary_cache) =>
             summary'.pc = "reading"
        /\ (SummaryRead /\ summary.g_after_call > 0) =>
             summary'.result =
                 ContextSummary(summary.context_id,
                     get_all_by_context(flows, summary.context_id, summary.user_id,
                                        FALSE, DefaultLimit),
                     ReadAt(tool_calls, tool.g_mutated))
      ]_vars

\* scenario D: mark_flow_complete on the incomplete f1 returned success, f1
\* is completed, the entry of c1 is gone, and a read of c1 that started
\* afterwards missed and computed a summary without f1
C12_Witness ==
    /\ tool.pc = "done" /\ tool.name = "mark_flow_complete" /\ tool.result.success
    /\ tool.args.flow_id = SStr("f1") /\ ~tool.g_completed_at_start
    /\ "f1" \in DOMAIN flows /\ flows["f1"].is_completed
    /\ SummaryKey("c1") \notin DOMAIN summary_cache
    /\ summary.pc = "setting" /\ summary.context_id = "c1" /\ summary.g_after_call = 1
    /\ summary.result.incomplete_flows_count = 0

\* the list a cached summary was computed from was read when the tool call
\* numbered call had already changed its flow
ReadSince(read_at, call) ==
    read_at.call > call \/ (read_at.call = call /\ read_at.mutated)

\* C14: a summary read that starts after a tool call's invalidation of
\* summary:{context_id} completed never returns a summary computed from the
\* flows as they were before that tool call's mutation.
C14_NoSummaryFromBeforeTheMutation ==
    (summary.pc = "returned" /\ summary.g_after_call > 0) =>
        ReadSince(summary.result.g_read_at, summary.g_after_call)

\* a flow of the context is added, removed or changed in this step
Touched(context_id) ==
    \/ \E id \in DOMAIN flows :
         /\ flows[id].context_id = context_id
         /\ id \in DOMAIN flows' => flows'[id] # flows[id]
    \/ \E id \in DOMAIN flows' \ DOMAIN flows : flows'[id].context_id = context_id

\* C15: every operation that changes a flow of a context leaves no entry
\* under summary:{context_id} when it returns: the tools, the creation of
\* extracted flows at the end of a turn, and the create, update, delete and
\* complete routes.
C15_EveryMutationInvalidatesSummary ==
    [][ /\ ToolReturnsSuccess =>
             SummaryKey(tool'.flow.context_id) \notin DOMAIN summary_cache'
        /\ (TurnFinish /\ turn.created_flows # <<>>) =>
             SummaryKey(turn.context_id) \notin DOMAIN summary_cache'
        /\ (OtherCreateFlow \/ UserUpdateFlow \/ UserDeleteFlow \/ UserCompleteFlow) =>
             \A context_id \in Contexts :
                 Touched(context_id) => SummaryKey(context_id) \notin DOMAIN summary_cache'
      ]_vars

----------------------------------------------------------------------------
(* Claims about the isolation of summaries between users (SpecIsolation)    *)

\* the summary of the flows the user has in the context
OwnSummary(context_id, user_id) ==
    ContextSummary(context_id,
                   get_all_by_context(flows, context_id, user_id, FALSE, DefaultLimit),
                   ReadAt(0, FALSE))

\* C40: generate_context_summary(context_id, user_id) returns only data
\* derived from the tasks of user_id: whatever another user did, a summary
\* for the same context_id within the TTL included, the summary returned to
\* user_id is the one of the user's own tasks (which do not change here).
C40_SummaryOnlyFromOwnTasks ==
    summary.pc = "returned"
        => [summary.result EXCEPT !.g_read_at = ReadAt(0, FALSE)]
               = OwnSummary(summary.context_id, summary.user_id)

----------------------------------------------------------------------------
(* Claims about CacheService (SpecCache)                                   *)

\* C13: at every instant, for every key, get returns the value of the last
\* set of that key if the instant is strictly before its expiry and no
\* delete or clear came after it, and None otherwise; the last get returned
\* exactly that. Operations on one key leave the other key's answer alone.
C13_CacheFollowsSetDeleteAndExpiry ==
    /\ \A key \in CacheKeys :
         cache_get(summary_cache, key, now) = Expected(probe.expect, key, now)
    /\ probe.op = "get" => probe.result = Expected(probe.expect, probe.key, probe.time)

\* k1 was set and read at the instant of its expiry: None, while k2, set
\* before with a longer ttl, is still readable
C13_Witness ==
    /\ probe.op = "get" /\ probe.key = "k1" /\ probe.result = "None"
    /\ probe.expect["k1"].set /\ probe.expect["k1"].expires_at = probe.time
    /\ probe.expect["k2"].set /\ now < probe.expect["k2"].expires_at
    /\ cache_get(summary_cache, "k2", now) = probe.expect["k2"].value
    /\ "k1" \notin DOMAIN summary_cache

----------------------------------------------------------------------------
(* Claims about _normalize_title (SpecNorm)                                *)

\* C4: _normalize_title is idempotent: normalising a key again gives the
\* same key.
C4_NormalizeIdempotent ==
    norm_pc = "done" => normalize_title(norm_out) = norm_out

\* The reference procedure of C5: lowercase, delete every character that is
\* not a letter, digit or whitespace, split on whitespace, drop the
\* stopwords, join.
DeleteUnkept(s) == SelectSeq(s, IsKept)

RefNormalize(title) ==
    JoinTokens(DropStopwords(Split(DeleteUnkept(LowerTitle(title)))))

\* C5: _normalize_title returns the key of the reference procedure for
\* every title.
C5_NormalizeMatchesReference ==
    norm_pc = "done" => norm_out = RefNormalize(norm_in)

----------------------------------------------------------------------------
(* Claims about extraction parsing (SpecParse)                             *)

CallReachesParser ==
    /\ ex_call.text # ""
    /\ ex_call.context_id # ""
    /\ ex_call.outcome = "ok"

\* The payload shapes C6 names: invalid JSON, a non-object document, tasks
\* that is not a list, and lists of objects whose priority, when present,
\* is a string.
C6_Shape(payload) ==
    \/ payload.top # "object"
    \/ payload.tasks # "list"
    \/ \A i \in 1..Len(payload.items) :
          /\ payload.items[i].kind = "object"
          /\ payload.items[i].priority.k \in {"absent", "str"}

C6_ItemValid(item) ==
    /\ item.title.k = "str"
    /\ Len(item.title.v) \in 1..MaxTitleChars
    /\ item.description.k # "num"

C6_ItemPriority(item) ==
    IF item.priority.k = "str" /\ item.priority.v \in {"low", "LOW"} THEN "low"
    ELSE IF item.priority.k = "str" /\ item.priority.v \in {"high", "HIGH"} THEN "high"
    ELSE "medium"

RECURSIVE C6_Expected(_, _)
C6_Expected(items, context_id) ==
    IF items = <<>> THEN <<>>
    ELSE LET item == Head(items)
             rest == C6_Expected(Tail(items), context_id)
         IN  IF C6_ItemValid(item)
             THEN <<[context_id |-> context_id, title |-> item.title.v,
                     description |-> IF item.description.k = "str"
                                     THEN item.description.v ELSE "None",
                     priority |-> C6_ItemPriority(item), due_date |-> "None",
                     reminder_enabled |-> FALSE]>> \o rest
             ELSE rest

\* C6: for the malformed shapes invalid JSON, non-object, tasks not a list,
\* item without title and unknown priority string, extraction does not
\* raise and returns exactly the valid items in order, an unknown priority
\* replaced by medium.
C6_MalformedShapesHandled ==
    (ex_pc = "done" /\ CallReachesParser /\ C6_Shape(ex_call.payload)) =>
        /\ ex_result.exc = "none"
        /\ ex_result.flows =
             IF ex_call.payload.top = "object" /\ ex_call.payload.tasks = "list"
             THEN C6_Expected(ex_call.payload.items, ex_call.context_id)
             ELSE <<>>

\* A list whose first item has no title and whose second has the unknown
\* priority "urgent": only the second is returned, with priority medium.
C6_Witness ==
    /\ ex_pc = "done"
    /\ CallReachesParser
    /\ ex_call.payload.top = "object" /\ ex_call.payload.tasks = "list"
    /\ Len(ex_call.payload.items) = 2
    /\ ex_call.payload.items[1].kind = "object"
    /\ ex_call.payload.items[1].title.k = "absent"
    /\ ex_call.payload.items[1].priority.k = "str"
    /\ ex_call.payload.items[2].kind = "object"
    /\ ex_call.payload.items[2].title = TStr(Title_fl)
    /\ ex_call.payload.items[2].priority = SStr("urgent")
    /\ ex_result.exc = "none"
    /\ Len(ex_result.flows) = 1
    /\ ex_result.flows[1].title = Title_fl
    /\ ex_result.flows[1].priority = "medium"

\* C7: extract_flows_from_text raises only when the provider call fails:
\* whatever the model returned, no exception is raised.
C7_RaisesOnlyOnProviderFailure ==
    (ex_pc = "done" /\ CallReachesParser) => ex_result.exc = "none"

----------------------------------------------------------------------------
(* Claims about the tools (SpecTools)                                      *)

NeutralMessages ==
    {"That task is already cleared", "That task was already removed",
     "That task is already gone"}

NeutralNoOp ==
    /\ tool.result.success
    /\ tool.result.text \in NeutralMessages
    /\ ~tool.g_mutated
    /\ ~tool.g_invalidated

RequiredArgsPresent ==
    /\ tool.args.flow_id.k = "str"
    /\ tool.args.flow_id.v # ""
    /\ tool.name = "update_flow_priority" => tool.args.priority.k # "absent"
    /\ tool.name = "update_flow_title" => tool.args.new_title.k # "absent"

C9_CompleteTwiceIsNoOp ==
    (/\ tool.pc = "done"
     /\ tool.name = "mark_flow_complete"
     /\ tool.g_completed_at_start) =>
        /\ tool.result = Ok("That task is already cleared")
        /\ ~tool.g_mutated

\* C10: when the user deletes or completes the task while a tool call on
\* it is running, the tool returns success = true, never success = false.
C10_RaceWithUserIsNeutral ==
    (/\ tool.pc = "done"
     /\ tool.name \in Executors
     /\ RequiredArgsPresent
     /\ tool.name = "update_flow_priority" => tool.args.priority.v \in FlowPriorityValues
     /\ tool.name = "update_flow_title" => Len(tool.args.new_title.v) \in 1..MaxTitleChars
     /\ ~tool.g_completed_at_start
     /\ tool.g_raced) => tool.result.success

====
